---- MODULE Spec2Model ----
(***************************************************************************)
(* Persistence layer, study-progress engine, chat-context manager and      *)
(* reminder sweep of the assistant bot (src/database/db_manager.py,        *)
(* src/main.py, src/utils/reminders.py, src/modules/telegram_bot.py).      *)
(*                                                                         *)
(* Every table is a set of rows (records); primary keys are handed out by  *)
(* per-table counters.  Every DatabaseManager method is one action: it     *)
(* opens its own session, commits and closes it before it returns.  The    *)
(* variable `call` records the last operation with its arguments and its   *)
(* return value.  The quizzes table, whose primary key no query reads, is  *)
(* a bag of rows without the key.                                          *)
(***************************************************************************)
EXTENDS Integers, Sequences, FiniteSets, Bags, TLC

VARIABLES
    now,          \* the wall clock (datetime.utcnow / date.today), in ticks
    chat,         \* table chat_history
    nextChatId,   \* next primary key of chat_history
    courses,      \* table courses
    nextCourseId, \* next primary key of courses
    topics,       \* table topics
    nextTopicId,  \* next primary key of topics
    progress,     \* table study_progress
    completions,  \* history: the (user, course, date) of every streak update
    notes,        \* table notes
    nextNoteId,   \* next primary key of notes
    tasks,        \* table tasks
    nextTaskId,   \* next primary key of tasks
    users,        \* table users
    nextUserId,   \* next primary key of users
    reminders,    \* table reminders
    nextReminderId, \* next primary key of reminders
    notifications,  \* send_reminder_notification tasks handed to the event loop
    quizzes,      \* table quizzes
    session,      \* the open Session of a method that is run step by step
    llm,          \* AIAssistant: [available: model is not None, calls: requests sent]
    tempFiles,    \* files in the temp_images directory
    boot,         \* the process: where main() is and what it has initialised
    activeQuiz,   \* context.user_data['active_quiz'] of every Telegram user
    keyboards,    \* quiz question messages whose answer buttons are on screen
    quizRuns,     \* history: quizzes started so far
    scheduler,    \* ReminderScheduler: [is_running, jobs of the job store]
    call          \* last operation: [op, user, arg, ret]

chatVars  == <<chat, nextChatId>>
studyVars == <<courses, nextCourseId, topics, nextTopicId, progress, completions>>

agendaVars == <<notes, nextNoteId, tasks, nextTaskId>>

remVars == <<users, nextUserId, reminders, nextReminderId, notifications>>

quizVars == <<quizzes>>

sessVars == <<session>>
llmVars == <<llm>>
botVars == <<activeQuiz, keyboards, quizRuns>>
schedVars == <<scheduler>>
procVars == <<tempFiles, boot, botVars, schedVars>>

vars == <<now, chat, nextChatId, courses, nextCourseId, topics, nextTopicId,
          progress, completions, notes, nextNoteId, tasks, nextTaskId,
          users, nextUserId, reminders, nextReminderId, notifications,
          quizzes, session, llm, tempFiles, boot, activeQuiz, keyboards,
          quizRuns, scheduler, call>>

\* ---------------------------------------------------------------- bounds
\* Users that issue calls.
Users == {1, 2}
\* Cap on the rows kept per user; src/config.py:64 sets 50, the model
\* scales it down so that the purge is exercised.
MAX_CHAT_HISTORY == 2
\* Total number of add_chat_message calls explored.
MaxChatRows == 3
\* Clock ticks explored by the chat-history specification.
MaxChatTime == 1
\* Largest `limit` passed to get_chat_history.
MaxLimit == 2

\* Courses and topics created, and days explored, by the study specification.
MaxCourses == 2
MaxTopics == 2
MaxStudyTime == 1
\* Days explored by the streak specification (one user, one course).
MaxStreakTime == 5
\* Topics of that course.
MaxStreakTopics == 3

\* Value of a DateTime column that is NULL.
NoTime == -1

\* Notes and tasks created by the ownership specification.
MaxNotes == 1
MaxTasks == 1
\* Tasks created, and instants explored, by the agenda specification.
MaxAgendaTasks == 2
MaxAgendaTime == 2
\* Instants per calendar day in the agenda specification, and the due
\* dates tasks are given: none, the last instant of the first day, the
\* first instant of the second day.
DayLen == 2
DueDates == {NoTime, DayLen - 1, DayLen}

\* Quiz results recorded by the quiz specification, and the (score, total)
\* pairs they carry.
\* Requests sent to the model in one behaviour.
MaxLlmCalls == 3

\* Photos (Telegram file ids) a user sends.
MaxPhotos == 2

\* (score, total) pairs a quiz hands in, one of them with score > total.
QuizEntries == {<<3, 5>>, <<6, 5>>}

\* Topics quizzes are taken on.
MaxQuizTopics == 2

\* Dates the system clock may show, forwards or backwards.
MaxSkewTime == 3

\* config.CONTEXT_WINDOW: messages of the history handed to the model.
CONTEXT_WINDOW == 2

\* Answer letters, questions of a quiz, and quizzes started.
Letters == {"A", "B"}
MaxQuestions == 2
MaxQuizRuns == 2

\* Words of a free-text message and the longest message.
Vocabulary == {"Not", "not", "ekle", "gorev", "hatirlatici", "yardim", "merhaba"}
MaxWords == 2

MaxQuizzes == 3
QuizScores == {<<3, 5>>, <<4, 5>>, <<1, 0>>}

\* Reminders created, and clock ticks explored, by the reminder
\* specifications.
MaxReminders == 3
MaxRemTime == 2
\* Telegram ids of the people who talk to the bot (update.effective_user.id).
TelegramIds == {2, 7}

\* Course names and topic titles (strings as sequences of characters), and
\* the references passed to mark_topic_completed: "a" is contained in two
\* of the names, "b" and "c" in one each, "x" in none.
Names == {<<"A">>, <<"A", "B">>, <<"C">>}
CourseNames == {<<"A">>, <<"A", "B">>}
Refs == {<<"a">>, <<"b">>, <<"c">>, <<"x">>}
\* References that match both course names, and only the longer one.
ResolveRefs == {<<"a">>, <<"b">>}
\* The week number each title is loaded with (telegram_bot.py:642 passes
\* the week of the predefined syllabus); insertion order is free, so id
\* order and week order differ.
WeekOf(title) == IF title = <<"A">> THEN 2 ELSE IF title = <<"A", "B">> THEN 1 ELSE 3

\* A name argument that is None, and the <<username, first_name,
\* last_name>> triples Telegram reports for a sender.
NoName == "None"
Profiles == {<<NoName, NoName, NoName>>, <<"u1", "f1", "l1">>,
             <<NoName, "f2", "l2">>}
\* Clock ticks explored by the user specification.
MaxUserTime == 2

\* Course descriptions.
Descriptions == {"d1", "d2"}

\* Role strings a caller may pass; "system" stands for any string outside
\* the three recognised ones.
Roles == {"user", "assistant", "model", "system"}
\* The roles AIAssistant.chat stores.
WrittenRoles == {"user", "model"}

\* ------------------------------------------------------------- helpers
Min(a, b) == IF a <= b THEN a ELSE b

NoCall == [op |-> "none", user |-> 0, arg |-> 0, ret |-> 0]

\* context.user_data without the key 'active_quiz'.
NoQuiz == [run |-> 0]

\* No method is between two of its steps.
Idle == [pc |-> "idle"]

\* The clock advances; operations in between read the same value.
Tick(max) ==
    /\ now < max
    /\ now' = now + 1

\* ------------------------------------------------------- chat history
\* session.query(ChatHistory).filter_by(user_id=user_id)
UserRowsAnyUser(rows, u) == rows

UserRows(rows, u) == {r \in rows : r.user_id = u}

\* ORDER BY created_at ASC LIMIT n: every result the database may return.
\* Rows with equal created_at have no defined relative order.
OldestByCreatedAt(rows, n) ==
    {S \in SUBSET rows :
        /\ Cardinality(S) = Min(n, Cardinality(rows))
        /\ \A r \in S, q \in rows \ S : r.created_at <= q.created_at}

\* delete_count = count - MAX_CHAT_HISTORY
DeleteCountOffByOne(count) == count - MAX_CHAT_HISTORY - 1

DeleteCount(count) == count - MAX_CHAT_HISTORY

\* _cleanup_old_messages: the tables it may leave behind.
CleanupOldMessages(rows, u) ==
    LET mine  == UserRows(rows, u)
        count == Cardinality(mine)
    IN  IF count > MAX_CHAT_HISTORY
        THEN {rows \ S : S \in OldestByCreatedAt(mine, DeleteCount(count))}
        ELSE {rows}

\* add_chat_message(user_id, role, message): insert, commit, purge.
AddChatMessage(u, role) ==
    /\ nextChatId <= MaxChatRows
    /\ LET row == [id |-> nextChatId, user_id |-> u, role |-> role,
                   message |-> nextChatId, created_at |-> now]
       IN  /\ chat' \in CleanupOldMessages(chat \cup {row}, u)
           /\ call' = [op |-> "add_chat_message", user |-> u,
                       arg |-> role, ret |-> row.id]
    /\ nextChatId' = nextChatId + 1
    /\ UNCHANGED <<now, quizVars, procVars, llmVars, sessVars, studyVars, agendaVars, remVars>>

\* add_chat_message statement by statement.  First half: session.add(chat);
\* session.commit().  A storage error here is rolled back and re-raised.
InsertChatMessage(u, role) ==
    /\ session = Idle
    /\ nextChatId <= MaxChatRows
    /\ LET row == [id |-> nextChatId, user_id |-> u, role |-> role,
                   message |-> nextChatId, created_at |-> now]
       IN  \/ /\ chat' = chat \cup {row}
              /\ nextChatId' = nextChatId + 1
              /\ session' = [pc |-> "cleanup", op |-> "add_chat_message",
                             user |-> u, role |-> role, row |-> row.id]
              /\ call' = NoCall
           \/ /\ call' = [op |-> "add_chat_message", user |-> u,
                           arg |-> [role |-> role, error |-> "insert"],
                           ret |-> "SQLAlchemyError"]
              /\ UNCHANGED <<chat, nextChatId, session>>
    /\ UNCHANGED <<now, quizVars, procVars, llmVars, studyVars, agendaVars, remVars>>

\* Second half: self._cleanup_old_messages(session, user_id), whose own
\* `except SQLAlchemyError` logs an error of the count, the select, the
\* delete or its commit and returns; then expunge and return chat.
CleanupStep ==
    /\ session # Idle /\ session.pc = "cleanup"
    /\ \/ /\ chat' \in CleanupOldMessages(chat, session.user)
          /\ call' = [op |-> "add_chat_message", user |-> session.user,
                      arg |-> [role |-> session.role, error |-> "none"],
                      ret |-> session.row]
       \/ /\ chat' = chat
          /\ call' = [op |-> "add_chat_message", user |-> session.user,
                      arg |-> [role |-> session.role, error |-> "cleanup"],
                      ret |-> session.row]
    /\ session' = Idle
    /\ UNCHANGED <<now, nextChatId, quizVars, procVars, llmVars, studyVars, agendaVars, remVars>>

\* add_chat_message as AIAssistant.chat sees it: the tables it may leave
\* when it returns (purge done, or purge failed and logged), or no table
\* at all when the insert raised.
AfterAddChatMessage(rows, row) ==
    CleanupOldMessages(rows \cup {row}, row.user_id) \cup {rows \cup {row}}

\* chat_session.send_message(full_message) is called once in chat(); an
\* exception goes to `except Exception`.
LlmAttemptsRetry(raised) == IF raised THEN 2 ELSE 1

LlmAttempts(raised) == 1

\* ORDER BY created_at DESC LIMIT limit, then messages.reverse(): every
\* list the code may hold in `messages` (oldest of the window first).
RecentWindows(rows, limit) ==
    LET k == Min(limit, Cardinality(rows))
    IN  {w \in [1..k -> rows] :
            /\ \A i, j \in 1..k : i < j =>
                   /\ w[i] # w[j]
                   /\ w[i].created_at <= w[j].created_at
            /\ \A q \in rows \ {w[i] : i \in 1..k} :
                   \A i \in 1..k : q.created_at <= w[i].created_at}

\* The role normalisation of get_chat_history; "skip" marks a dropped row.
NormalizeRoleNoMap(role) ==
    IF role \in {"user", "assistant", "model"} THEN role ELSE "skip"

NormalizeRole(role) ==
    IF role = "assistant" THEN "model"
    ELSE IF role = "user" THEN "user"
    ELSE IF role = "model" THEN "model"
    ELSE "skip"

\* The result loop of get_chat_history over `messages`.
RECURSIVE BuildResult(_)
BuildResult(w) ==
    IF Len(w) = 0 THEN <<>>
    ELSE LET msg  == w[Len(w)]
             rest == BuildResult(SubSeq(w, 1, Len(w) - 1))
             role == NormalizeRole(msg.role)
         IN  IF role = "skip" THEN rest
             ELSE Append(rest, [role |-> role, text |-> msg.message])

\* get_chat_history(user_id, limit)
GetChatHistory(u, limit) ==
    /\ \E w \in RecentWindows(UserRows(chat, u), limit) :
           call' = [op |-> "get_chat_history", user |-> u,
                    arg |-> [limit |-> limit, messages |-> w],
                    ret |-> BuildResult(w)]
    /\ UNCHANGED <<now, quizVars, procVars, llmVars, sessVars, chatVars, studyVars, agendaVars, remVars>>

\* self.db_manager.add_chat_message(user_id, 'model', ai_response)
ReplyRoleAssistant == "assistant"

ReplyRole == "model"

\* history = get_chat_history(user_id, limit=CONTEXT_WINDOW), read after
\* the user's message was stored: every list it may return, the empty
\* list of its error branch included.
HistoryForLlm(rows, u) ==
    {BuildResult(w) : w \in RecentWindows(UserRows(rows, u), CONTEXT_WINDOW)}
        \cup {<<>>}

\* AIAssistant.chat(user_id, message).  The call record keeps the id of
\* the message and the history handed to start_chat.
Chat(u) ==
    LET done(reached, ret, hist) ==
            call' = [op |-> "chat", user |-> u, arg |-> reached, ret |-> ret,
                     message |-> nextChatId, history |-> hist]
        row(id, role) == [id |-> id, user_id |-> u, role |-> role,
                          message |-> id, created_at |-> now]
    IN  /\ session = Idle
        /\ nextChatId <= MaxChatRows
        /\ llm.calls < MaxLlmCalls
        /\ IF ~llm.available
           THEN /\ done("unavailable", "unavailable", <<>>)
                /\ UNCHANGED <<chat, nextChatId, llm>>
           ELSE \/ /\ done("add_chat_message raised", "apology", <<>>)
                   /\ UNCHANGED <<chat, nextChatId, llm>>
                \/ \E stored \in AfterAddChatMessage(chat, row(nextChatId, "user")) :
                    \E hist \in HistoryForLlm(stored, u) :
                      \/ /\ done("start_chat raised", "apology", hist)
                         /\ chat' = stored
                         /\ nextChatId' = nextChatId + 1
                         /\ UNCHANGED llm
                      \/ /\ done("send_message raised", "apology", hist)
                         /\ chat' = stored
                         /\ nextChatId' = nextChatId + 1
                         /\ llm' = [llm EXCEPT !.calls = @ + LlmAttempts(TRUE)]
                      \/ /\ done("reply not stored", "apology", hist)
                         /\ chat' = stored
                         /\ nextChatId' = nextChatId + 1
                         /\ llm' = [llm EXCEPT !.calls = @ + LlmAttempts(FALSE)]
                      \/ /\ done("answered", "response", hist)
                         /\ chat' \in AfterAddChatMessage(stored,
                                          row(nextChatId + 1, ReplyRole))
                         /\ nextChatId' = nextChatId + 2
                         /\ llm' = [llm EXCEPT !.calls = @ + LlmAttempts(FALSE)]
        /\ UNCHANGED <<now, quizVars, procVars, sessVars, studyVars, agendaVars, remVars>>

\* ------------------------------------------------------ study progress
\* Column.ilike folds case.
Lower(ch) == IF ch = "A" THEN "a" ELSE IF ch = "B" THEN "b"
             ELSE IF ch = "C" THEN "c" ELSE ch

\* column.ilike(f"%{pat}%"): case-insensitive substring match.
ILike(str, pat) ==
    \E i \in 1..(Len(str) - Len(pat) + 1) :
        \A j \in 1..Len(pat) : Lower(str[i + j - 1]) = Lower(pat[j])

\* date.today()
Today == now

\* session.query(Course).filter_by(user_id=user_id, name=name)
ExistingCourseNever(u, name) == {}

ExistingCourse(u, name) == {c \in courses : c.user_id = u /\ c.name = name}

\* add_course(user_id, name, description): total_topics and
\* completed_topics take the column defaults 10 and 0.
AddCourse(u, name, desc) ==
    /\ IF ExistingCourse(u, name) # {}
       THEN /\ \E c \in ExistingCourse(u, name) :
                  /\ courses' = (courses \ {c}) \cup
                                    {[c EXCEPT !.description = desc]}
                  /\ call' = [op |-> "add_course", user |-> u,
                              arg |-> [name |-> name, description |-> desc],
                              ret |-> c.id]
            /\ UNCHANGED nextCourseId
       ELSE /\ nextCourseId <= MaxCourses
            /\ courses' = courses \cup
                   {[id |-> nextCourseId, user_id |-> u, name |-> name,
                     description |-> desc,
                     total_topics |-> 10, completed_topics |-> 0]}
            /\ nextCourseId' = nextCourseId + 1
            /\ call' = [op |-> "add_course", user |-> u,
                        arg |-> [name |-> name, description |-> desc],
                        ret |-> nextCourseId]
    /\ UNCHANGED <<now, quizVars, procVars, llmVars, sessVars, chatVars, agendaVars, remVars, topics,
                   nextTopicId, progress, completions>>

\* session.query(Topic).filter_by(course_id=course_id)
CourseTopics(tps, cid) == {t \in tps : t.course_id = cid}

\* session.query(Topic).filter_by(course_id=course_id, title=title)
ExistingTopicNever(cid, title) == {}

ExistingTopic(cid, title) ==
    {t \in topics : t.course_id = cid /\ t.title = title}

\* course.total_topics = count + 1, where count is the result of the count
\* query, which runs after the autoflush of the pending topic.
TotalAfterAdd(count) == count + 1

\* add_topic(course_id, title, week); callers pass an id add_course returned.
AddTopic(cid, title, week, maxTopics) ==
    /\ \E c \in courses : c.id = cid
    /\ IF ExistingTopic(cid, title) # {}
       THEN /\ \E t \in ExistingTopic(cid, title) :
                  call' = [op |-> "add_topic", user |-> 0,
                           arg |-> [course_id |-> cid, title |-> title],
                           ret |-> t.id]
            /\ UNCHANGED <<courses, topics, nextTopicId>>
       ELSE /\ nextTopicId <= maxTopics
            /\ LET topic == [id |-> nextTopicId, course_id |-> cid,
                             title |-> title, week_number |-> week,
                             is_completed |-> FALSE, completed_at |-> NoTime]
                   count == Cardinality(CourseTopics(topics \cup {topic}, cid))
               IN  /\ topics' = topics \cup {topic}
                   /\ courses' = {IF c.id = cid
                                  THEN [c EXCEPT !.total_topics = TotalAfterAdd(count)]
                                  ELSE c : c \in courses}
            /\ nextTopicId' = nextTopicId + 1
            /\ call' = [op |-> "add_topic", user |-> 0,
                        arg |-> [course_id |-> cid, title |-> title],
                        ret |-> nextTopicId]
    /\ UNCHANGED <<now, quizVars, procVars, llmVars, sessVars, chatVars, agendaVars, remVars, nextCourseId,
                   progress, completions>>

\* _update_study_progress(session, user_id, course_id): the new table.
StreakAfterNoReset(p, today) ==
    IF p.last_study_date = today THEN p
    ELSE [p EXCEPT !.streak_days = p.streak_days + 1,
                   !.last_study_date = today]

StreakAfter(p, today) ==
    IF p.last_study_date = today THEN p
    ELSE IF p.last_study_date = today - 1
         THEN [p EXCEPT !.streak_days = p.streak_days + 1,
                        !.last_study_date = today]
         ELSE [p EXCEPT !.streak_days = 1, !.last_study_date = today]

\* _update_study_progress(session, user_id, course_id)
UpdateStudyProgressInsertOnly(prog, u, cid, today) ==
    prog \cup {[user_id |-> u, course_id |-> cid,
                last_study_date |-> today, streak_days |-> 1]}

UpdateStudyProgress(prog, u, cid, today) ==
    LET rows == {p \in prog : p.user_id = u /\ p.course_id = cid}
    IN  IF rows = {}
        THEN prog \cup {[user_id |-> u, course_id |-> cid,
                         last_study_date |-> today, streak_days |-> 1]}
        ELSE {IF p \in rows THEN StreakAfter(p, today) ELSE p : p \in prog}

\* date.today() follows the system clock, which an administrator or a
\* time synchronisation may set back.
ClockSet ==
    /\ \E t \in 0..MaxSkewTime : t # now /\ now' = t
    /\ call' = NoCall
    /\ UNCHANGED <<chatVars, studyVars, agendaVars, remVars, quizVars, procVars,
                   llmVars, sessVars>>

\* One streak update as the completion methods make it, with the date the
\* row held before (none: no row).
StreakUpdate(u, cid) ==
    LET rows == {p \in progress : p.user_id = u /\ p.course_id = cid}
    IN  /\ progress' = UpdateStudyProgress(progress, u, cid, Today)
        /\ call' = [op |-> "_update_study_progress", user |-> u,
                    arg |-> [course_id |-> cid, today |-> Today,
                             before |-> {p.last_study_date : p \in rows}],
                    ret |-> 0]
        /\ UNCHANGED <<now, quizVars, procVars, llmVars, sessVars, chatVars,
                       agendaVars, remVars, courses, nextCourseId, topics,
                       nextTopicId, completions>>

\* session.query(Topic).filter_by(course_id=..., is_completed=True).count()
CompletedCountStale(tps, cid) ==
    Cardinality({t \in CourseTopics(tps, cid) : t.is_completed}) - 1

CompletedCount(tps, cid) ==
    Cardinality({t \in CourseTopics(tps, cid) : t.is_completed})

\* `if not topic.is_completed`
NeedsCompletionAlways(topic) == TRUE

NeedsCompletion(topic) == ~topic.is_completed

\* The body shared by mark_topic_completed and mark_topic_completed_by_id
\* once course and topic are resolved: flag, stamp, recount, streak, commit.
CompleteTopic(u, course, topic) ==
    IF NeedsCompletion(topic)
    THEN LET tps == {IF t.id = topic.id
                     THEN [t EXCEPT !.is_completed = TRUE, !.completed_at = now]
                     ELSE t : t \in topics}
         IN  /\ topics' = tps
             /\ courses' = {IF c.id = course.id
                            THEN [c EXCEPT !.completed_topics =
                                               CompletedCount(tps, course.id)]
                            ELSE c : c \in courses}
             /\ progress' = UpdateStudyProgress(progress, u, course.id, Today)
             /\ completions' = completions \cup
                    {[user_id |-> u, course_id |-> course.id, day |-> Today]}
    ELSE UNCHANGED <<topics, courses, progress, completions>>

\* mark_topic_completed(user_id, course_name, topic_title); .first() has no
\* ORDER BY, so any matching row may be the one returned.  call.arg is the
\* id of the topic the references resolved to (0: not resolved).
\* Course.user_id == user_id, Course.name.ilike("%course_name%")
CoursesMatchingAnyUser(u, cref) == {c \in courses : ILike(c.name, cref)}

CoursesMatching(u, cref) ==
    {c \in courses : c.user_id = u /\ ILike(c.name, cref)}

\* Topic.course_id == course.id, Topic.title.ilike("%topic_title%")
TopicsMatching(course, tref) ==
    {t \in topics : t.course_id = course.id /\ ILike(t.title, tref)}

\* mark_topic_completed(user_id, course_name, topic_title); `ref` is what
\* the call record keeps of the two references.
MarkTopicCompletedWith(u, cref, tref, ref) ==
    LET cs == CoursesMatching(u, cref)
        failed == /\ call' = [op |-> "mark_topic_completed", user |-> u,
                              arg |-> 0, ref |-> ref,
                              ret |-> FALSE]
                  /\ UNCHANGED <<topics, courses, progress, completions>>
    IN  /\ IF cs = {} THEN failed
           ELSE \E course \in cs :
                  LET ts == TopicsMatching(course, tref)
                  IN  IF ts = {} THEN failed
                      ELSE \E topic \in ts :
                             /\ CompleteTopic(u, course, topic)
                             /\ call' = [op |-> "mark_topic_completed", user |-> u,
                                         arg |-> topic.id,
                                         ref |-> ref,
                                         ret |-> TRUE]
        /\ UNCHANGED <<now, quizVars, procVars, llmVars, sessVars, chatVars, agendaVars, remVars, nextCourseId, nextTopicId>>

MarkTopicCompleted(u, cref, tref) ==
    MarkTopicCompletedWith(u, cref, tref, <<>>)

\* The same call with both references kept in the call record.
MarkTopicCompletedTraced(u, cref, tref) ==
    MarkTopicCompletedWith(u, cref, tref, <<cref, tref>>)

\* The ownership lookup of mark_topic_completed_by_id.
OwnerCourseAnyUser(tid, u) ==
    {c \in courses : \E t \in topics : t.id = tid /\ c.id = t.course_id}

OwnerCourse(tid, u) ==
    {c \in courses : /\ c.user_id = u
                     /\ \E t \in topics : t.id = tid /\ c.id = t.course_id}

\* mark_topic_completed_by_id(user_id, topic_id)
MarkTopicCompletedById(u, tid) ==
    /\ IF OwnerCourse(tid, u) = {}
       THEN /\ call' = [op |-> "mark_topic_completed_by_id", user |-> u,
                        arg |-> tid, ret |-> FALSE]
            /\ UNCHANGED <<topics, courses, progress, completions>>
       ELSE \E course \in OwnerCourse(tid, u) :
              \E topic \in {t \in topics : t.id = tid} :
                 /\ CompleteTopic(u, course, topic)
                 /\ call' = [op |-> "mark_topic_completed_by_id", user |-> u,
                             arg |-> tid, ret |-> TRUE]
    /\ UNCHANGED <<now, quizVars, procVars, llmVars, sessVars, chatVars, agendaVars, remVars, nextCourseId, nextTopicId>>

\* max(p.streak_days for p in progresses)
RECURSIVE StreakSum(_)
StreakSum(ps) ==
    IF ps = {} THEN 0
    ELSE LET p == CHOOSE x \in ps : TRUE
         IN  p.streak_days + StreakSum(ps \ {p})

StreakMax(ps) ==
    LET p == CHOOSE x \in ps : \A y \in ps : y.streak_days <= x.streak_days
    IN  p.streak_days

\* get_streak(user_id)
GetStreak(u) ==
    LET progresses == {p \in progress : p.user_id = u}
    IN  /\ call' = [op |-> "get_streak", user |-> u, arg |-> 0,
                    ret |-> IF progresses = {} THEN 0
                            ELSE StreakMax(progresses)]
        /\ UNCHANGED <<now, chatVars, studyVars, agendaVars, remVars, quizVars, procVars, llmVars, sessVars>>

\* ------------------------------------- topic completion, step by step
\* mark_topic_completed and mark_topic_completed_by_id between their
\* statements.  The Session holds its own view of the rows it has changed;
\* the tables hold what is committed, which is what any other connection
\* reads.  Every statement may raise SQLAlchemyError.

\* What a finished call records: the topic it resolved to (0: none) and the
\* statement that raised ("none": no statement did).
Outcome(op, u, tid, err, ret) ==
    [op |-> op, user |-> u, arg |-> [topic |-> tid, error |-> err], ret |-> ret]

\* The Session after course and topic are resolved and the topic is open.
Resolved(op, u, course, topic) ==
    [pc |-> "flag", op |-> op, user |-> u, course |-> course.id,
     topic |-> topic.id, topics |-> topics, courses |-> courses,
     progress |-> progress, studied |-> FALSE, error |-> "none",
     inactive |-> FALSE]

\* The lookups of mark_topic_completed_by_id, up to `if not
\* topic.is_completed`.
BeginMarkTopicCompletedById(u, tid) ==
    LET op == "mark_topic_completed_by_id"
    IN  /\ session = Idle
        /\ \/ /\ call' = Outcome(op, u, 0, "lookup", FALSE)
              /\ UNCHANGED session
           \/ /\ OwnerCourse(tid, u) = {}
              /\ call' = Outcome(op, u, 0, "none", FALSE)
              /\ UNCHANGED session
           \/ \E course \in OwnerCourse(tid, u), topic \in {t \in topics : t.id = tid} :
                 IF NeedsCompletion(topic)
                 THEN /\ session' = Resolved(op, u, course, topic)
                      /\ call' = NoCall
                 ELSE /\ call' = Outcome(op, u, tid, "none", TRUE)
                      /\ UNCHANGED session
        /\ UNCHANGED <<now, chatVars, studyVars, agendaVars, remVars, quizVars, procVars, llmVars>>

\* The lookups of mark_topic_completed, up to `if not topic.is_completed`.
BeginMarkTopicCompleted(u, cref, tref) ==
    LET op == "mark_topic_completed"
        cs == CoursesMatching(u, cref)
    IN  /\ session = Idle
        /\ \/ /\ call' = Outcome(op, u, 0, "lookup", FALSE)
              /\ UNCHANGED session
           \/ /\ cs = {}
              /\ call' = Outcome(op, u, 0, "none", FALSE)
              /\ UNCHANGED session
           \/ \E course \in cs :
                 LET ts == TopicsMatching(course, tref)
                 IN  \/ /\ ts = {}
                        /\ call' = Outcome(op, u, 0, "none", FALSE)
                        /\ UNCHANGED session
                     \/ \E topic \in ts :
                           IF NeedsCompletion(topic)
                           THEN /\ session' = Resolved(op, u, course, topic)
                                /\ call' = NoCall
                           ELSE /\ call' = Outcome(op, u, topic.id, "none", TRUE)
                                /\ UNCHANGED session
        /\ UNCHANGED <<now, chatVars, studyVars, agendaVars, remVars, quizVars, procVars, llmVars>>

\* except SQLAlchemyError: session.rollback(); return False
Rollback(err) ==
    /\ session' = Idle
    /\ call' = Outcome(session.op, session.user, session.topic, err, FALSE)
    /\ UNCHANGED <<now, chatVars, studyVars, agendaVars, remVars, quizVars, procVars, llmVars>>

\* What other connections see of rows the Session has flushed but not
\* committed.
SeenBeforeCommitDirty(committed, flushed) == flushed

SeenBeforeCommit(committed, flushed) == committed

\* topic.is_completed = True; topic.completed_at = utcnow(); the count
\* query (which flushes the topic); course.completed_topics = count.
FlagAndCount ==
    /\ session # Idle /\ session.pc = "flag"
    /\ \/ Rollback("count")
       \/ LET tps == {IF t.id = session.topic
                       THEN [t EXCEPT !.is_completed = TRUE,
                                      !.completed_at = now]
                       ELSE t : t \in session.topics}
              crs == {IF c.id = session.course
                      THEN [c EXCEPT !.completed_topics =
                                         CompletedCount(tps, session.course)]
                      ELSE c : c \in session.courses}
          IN  /\ session' = [session EXCEPT !.pc = "progress",
                                            !.topics = tps, !.courses = crs]
              /\ topics' = SeenBeforeCommit(topics, tps)
              /\ UNCHANGED <<now, call, chatVars, agendaVars, remVars, quizVars, procVars, llmVars,
                             courses, nextCourseId, nextTopicId, progress,
                             completions>>

\* self._update_study_progress(session, user_id, course.id): its own
\* `except SQLAlchemyError` logs the error of the StudyProgress query and
\* returns.  When the error came from the flush that precedes the query
\* the Session's transaction is rolled back and inactive; when it came
\* from the SELECT the transaction stays open.
UpdateProgressStep ==
    /\ session # Idle /\ session.pc = "progress"
    /\ \/ session' = [session EXCEPT
                          !.pc = "commit", !.studied = TRUE,
                          !.progress = UpdateStudyProgress(session.progress,
                                           session.user, session.course, Today)]
       \/ \E flushFailed \in BOOLEAN :
              session' = [session EXCEPT !.pc = "commit", !.error = "progress",
                                         !.inactive = flushFailed]
    /\ UNCHANGED <<now, call, chatVars, studyVars, agendaVars, remVars, quizVars, procVars, llmVars>>

\* session.commit(); return True
CommitStep ==
    /\ session # Idle /\ session.pc = "commit"
    /\ \/ Rollback(IF session.error = "none" THEN "commit" ELSE session.error)
       \/ /\ ~session.inactive
          /\ topics' = session.topics
          /\ courses' = session.courses
          /\ progress' = session.progress
          /\ completions' = IF session.studied
                            THEN completions \cup
                                   {[user_id |-> session.user,
                                     course_id |-> session.course, day |-> Today]}
                            ELSE completions
          /\ session' = Idle
          /\ call' = Outcome(session.op, session.user, session.topic,
                             session.error, TRUE)
          /\ UNCHANGED <<now, chatVars, agendaVars, remVars, quizVars, procVars, llmVars,
                         nextCourseId, nextTopicId>>

\* ---------------------------------------------------------- next topics
\* .join(Course, Topic.course_id == Course.id)
\* .filter(Course.user_id == user_id, Topic.is_completed == False)
OpenTopicsAnyState(u) ==
    {t \in topics : \E c \in courses : c.id = t.course_id /\ c.user_id = u}

OpenTopics(u) ==
    {t \in topics : /\ ~t.is_completed
                    /\ \E c \in courses : c.id = t.course_id /\ c.user_id = u}

\* .order_by(Course.id, Topic.week_number): every order of the rows the
\* database may produce; rows equal in both keys have no defined order.
OrderedByCourseAndWeek(rows) ==
    LET n == Cardinality(rows)
    IN  {s \in [1..n -> rows] :
            /\ \A i, j \in 1..n : i # j => s[i] # s[j]
            /\ \A i, j \in 1..n : i < j =>
                   \/ s[i].course_id < s[j].course_id
                   \/ /\ s[i].course_id = s[j].course_id
                      /\ s[i].week_number <= s[j].week_number}

\* The dict built for each (Topic, Course) row.
TopicInfo(t) ==
    [topic_id |-> t.id, topic_title |-> t.title,
     week_number |-> t.week_number, course_id |-> t.course_id]

\* get_next_topics(user_id, limit)
GetNextTopics(u, limit) ==
    /\ \E s \in OrderedByCourseAndWeek(OpenTopics(u)) :
           call' = [op |-> "get_next_topics", user |-> u, arg |-> limit,
                    ret |-> [i \in 1..Min(limit, Len(s)) |-> TopicInfo(s[i])]]
    /\ UNCHANGED <<now, chatVars, studyVars, agendaVars, remVars, quizVars, procVars, llmVars, sessVars>>

\* get_next_topic(user_id): .first() on the same query; the result is a
\* list that is empty for None and holds the dict otherwise.
GetNextTopic(u) ==
    /\ \E s \in OrderedByCourseAndWeek(OpenTopics(u)) :
           call' = [op |-> "get_next_topic", user |-> u, arg |-> 1,
                    ret |-> [i \in 1..Min(1, Len(s)) |-> TopicInfo(s[i])]]
    /\ UNCHANGED <<now, chatVars, studyVars, agendaVars, remVars, quizVars, procVars, llmVars, sessVars>>

\* -------------------------------------------------------------- quizzes
\* add_quiz_result(user_id, topic_id, score, total): always inserts; the
\* foreign key to topics is not enforced.
\* Quiz(user_id=user_id, topic_id=topic_id, score=score,
\*      total_questions=total): the values are stored as given.
QuizRowValidated(u, tid, score, total) ==
    [user_id |-> u, topic_id |-> tid, score |-> Min(score, total),
     total_questions |-> total]

QuizRow(u, tid, score, total) ==
    [user_id |-> u, topic_id |-> tid, score |-> score,
     total_questions |-> total]

AddQuizResult(u, tid, score, total) ==
    /\ BagCardinality(quizzes) < MaxQuizzes
    /\ quizzes' = quizzes (+) SetToBag({QuizRow(u, tid, score, total)})
    /\ call' = [op |-> "add_quiz_result", user |-> u,
                arg |-> [topic_id |-> tid, score |-> score, total |-> total],
                ret |-> 0]
    /\ UNCHANGED <<now, chatVars, studyVars, agendaVars, remVars, sessVars, procVars, llmVars>>

\* [t.id for t in session.query(Topic).filter_by(course_id=course_id).all()]
TopicIds(cid) == {t.id : t \in CourseTopics(topics, cid)}

\* Quiz.user_id == user_id, Quiz.topic_id.in_(topic_ids),
\* Quiz.total_questions > 0
QuizFilterAnyUser(q, u, tids) ==
    q.topic_id \in tids /\ q.total_questions > 0

QuizFilter(q, u, tids) ==
    q.user_id = u /\ q.topic_id \in tids /\ q.total_questions > 0

\* The rows the quiz query of get_avg_quiz_score returns.
MatchingQuizzes(u, cid) ==
    [q \in {x \in BagToSet(quizzes) : QuizFilter(x, u, TopicIds(cid))}
        |-> quizzes[q]]

\* (q.score / q.total_questions) * 100; the totals explored divide 100, so
\* the quotient is exact.
Pct(q) == (q.score * 100) \div q.total_questions

\* sum((q.score / q.total_questions) * 100 for q in quizzes)
RECURSIVE PctSum(_)
PctSum(B) ==
    IF DOMAIN B = {} THEN 0
    ELSE LET q == CHOOSE x \in DOMAIN B : TRUE
         IN  B[q] * Pct(q) + PctSum([x \in DOMAIN B \ {q} |-> B[x]])

\* A float result is the fraction sum / n; None is the record with n = 0.
None == [sum |-> 0, n |-> 0]

\* The value get_avg_quiz_score(user_id, course_id) returns.
AvgQuizScore(u, cid) ==
    IF TopicIds(cid) = {} THEN None
    ELSE IF DOMAIN MatchingQuizzes(u, cid) = {} THEN None
    ELSE [sum |-> PctSum(MatchingQuizzes(u, cid)),
          n   |-> BagCardinality(MatchingQuizzes(u, cid))]

\* get_avg_quiz_score(user_id, course_id)
GetAvgQuizScore(u, cid) ==
    /\ call' = [op |-> "get_avg_quiz_score", user |-> u, arg |-> cid,
                ret |-> AvgQuizScore(u, cid)]
    /\ UNCHANGED <<now, chatVars, studyVars, agendaVars, remVars, quizVars, procVars, llmVars, sessVars>>

\* session.query(Quiz).filter_by(user_id=user_id).count()
RECURSIVE TotalQuizzes(_, _)
TotalQuizzes(B, u) ==
    IF BagToSet(B) = {} THEN 0
    ELSE LET q == CHOOSE x \in BagToSet(B) : TRUE
             rest == [x \in BagToSet(B) \ {q} |-> B[x]]
         IN  (IF q.user_id = u THEN B[q] ELSE 0) + TotalQuizzes(rest, u)

\* get_total_quizzes(user_id)
GetTotalQuizzes(u) ==
    /\ call' = [op |-> "get_total_quizzes", user |-> u, arg |-> 0,
                ret |-> TotalQuizzes(quizzes, u)]
    /\ UNCHANGED <<now, quizVars, procVars, llmVars, sessVars, chatVars,
                   studyVars, agendaVars, remVars>>

\* ----------------------------------------------------- notes and tasks
\* add_note(user_id, category, content)
AddNote(u) ==
    /\ nextNoteId <= MaxNotes
    /\ notes' = notes \cup {[id |-> nextNoteId, user_id |-> u]}
    /\ nextNoteId' = nextNoteId + 1
    /\ call' = [op |-> "add_note", user |-> u, arg |-> 0, ret |-> nextNoteId]
    /\ UNCHANGED <<now, quizVars, procVars, llmVars, sessVars, chatVars, studyVars, remVars, tasks, nextTaskId>>

\* session.query(Note).filter_by(id=note_id, user_id=user_id)
FindNoteAnyUser(nid, u) == {n \in notes : n.id = nid}

FindNote(nid, u) == {n \in notes : n.id = nid /\ n.user_id = u}

\* delete_note(note_id, user_id)
DeleteNote(nid, u) ==
    /\ notes' = notes \ FindNote(nid, u)
    /\ call' = [op |-> "delete_note", user |-> u, arg |-> nid,
                ret |-> (FindNote(nid, u) # {})]
    /\ UNCHANGED <<now, quizVars, procVars, llmVars, sessVars, chatVars, studyVars, remVars, nextNoteId, tasks, nextTaskId>>

\* add_task(user_id, title, ..., due_date): is_completed defaults to False,
\* completed_at to NULL; due_date is NULL when the caller passes none.
AddTask(u, due, maxTasks) ==
    /\ nextTaskId <= maxTasks
    /\ tasks' = tasks \cup {[id |-> nextTaskId, user_id |-> u, due_date |-> due,
                             is_completed |-> FALSE, completed_at |-> NoTime]}
    /\ nextTaskId' = nextTaskId + 1
    /\ call' = [op |-> "add_task", user |-> u, arg |-> due, ret |-> nextTaskId]
    /\ UNCHANGED <<now, quizVars, procVars, llmVars, sessVars, chatVars, studyVars, remVars, notes, nextNoteId>>

\* session.query(Task).filter_by(id=task_id, user_id=user_id)
FindTask(tid, u) == {t \in tasks : t.id = tid /\ t.user_id = u}

\* task.completed_at = datetime.utcnow() if is_completed else None
CompletedAtKept(t, done) == IF done THEN now ELSE t.completed_at

CompletedAt(t, done) == IF done THEN now ELSE NoTime

\* update_task_status(task_id, user_id, is_completed)
UpdateTaskStatus(tid, u, done) ==
    /\ tasks' = {IF t \in FindTask(tid, u)
                 THEN [t EXCEPT !.is_completed = done,
                                !.completed_at = CompletedAt(t, done)]
                 ELSE t : t \in tasks}
    /\ call' = [op |-> "update_task_status", user |-> u,
                arg |-> [id |-> tid, done |-> done],
                ret |-> (FindTask(tid, u) # {})]
    /\ UNCHANGED <<now, quizVars, procVars, llmVars, sessVars, chatVars, studyVars, remVars, notes, nextNoteId, nextTaskId>>

\* delete_task(task_id, user_id)
DeleteTask(tid, u) ==
    /\ tasks' = tasks \ FindTask(tid, u)
    /\ call' = [op |-> "delete_task", user |-> u, arg |-> tid,
                ret |-> (FindTask(tid, u) # {})]
    /\ UNCHANGED <<now, quizVars, procVars, llmVars, sessVars, chatVars, studyVars, remVars, notes, nextNoteId, nextTaskId>>

\* datetime.now().replace(hour=0, minute=0, second=0, microsecond=0), with
\* the clock counting instants of which DayLen make a day.
TodayStart == now - (now % DayLen)

\* today_start + timedelta(days=1)
TodayEnd == TodayStart + DayLen

\* Task.due_date < today_end
BeforeEndInclusive(due) == due <= TodayEnd

BeforeEnd(due) == due < TodayEnd

\* The filter of get_today_tasks; a comparison with a NULL due_date is not
\* true in SQL.
TodayTasks(u) ==
    {t \in tasks : /\ t.user_id = u
                   /\ ~t.is_completed
                   /\ t.due_date # NoTime
                   /\ t.due_date >= TodayStart
                   /\ BeforeEnd(t.due_date)}

\* get_today_tasks(user_id)
GetTodayTasks(u) ==
    /\ call' = [op |-> "get_today_tasks", user |-> u, arg |-> 0,
                ret |-> TodayTasks(u)]
    /\ UNCHANGED <<now, quizVars, procVars, llmVars, sessVars, chatVars, studyVars, agendaVars, remVars>>

\* ------------------------------------------------------------ reminders
\* user.username = username or user.username (a None argument keeps the
\* stored value)
KeepOrUpdateOverwrite(new, old) == new

KeepOrUpdate(new, old) == IF new = NoName THEN old ELSE new

\* get_or_create_user(telegram_id, username, first_name, last_name), with
\* names == <<username, first_name, last_name>>.
GetOrCreateUser(tg, names) ==
    /\ IF \E usr \in users : usr.telegram_id = tg
       THEN /\ \E usr \in {x \in users : x.telegram_id = tg} :
                  /\ users' = (users \ {usr}) \cup
                        {[usr EXCEPT
                            !.username = KeepOrUpdate(names[1], usr.username),
                            !.first_name = KeepOrUpdate(names[2], usr.first_name),
                            !.last_name = KeepOrUpdate(names[3], usr.last_name),
                            !.last_active = now]}
                  /\ call' = [op |-> "get_or_create_user", user |-> tg,
                              arg |-> names, ret |-> usr.id]
            /\ UNCHANGED nextUserId
       ELSE /\ users' = users \cup
                   {[id |-> nextUserId, telegram_id |-> tg,
                     username |-> names[1], first_name |-> names[2],
                     last_name |-> names[3],
                     created_at |-> now, last_active |-> now]}
            /\ nextUserId' = nextUserId + 1
            /\ call' = [op |-> "get_or_create_user", user |-> tg,
                        arg |-> names, ret |-> nextUserId]
    /\ UNCHANGED <<now, quizVars, procVars, llmVars, sessVars, chatVars, studyVars, agendaVars,
                   reminders, nextReminderId, notifications>>

\* add_reminder(user_id, message, remind_at): is_sent defaults to False.
AddReminder(u, at) ==
    /\ nextReminderId <= MaxReminders
    /\ reminders' = reminders \cup
           {[id |-> nextReminderId, user_id |-> u, remind_at |-> at,
             is_sent |-> FALSE]}
    /\ nextReminderId' = nextReminderId + 1
    /\ call' = [op |-> "add_reminder", user |-> u, arg |-> at,
                ret |-> nextReminderId]
    /\ UNCHANGED <<now, quizVars, procVars, llmVars, sessVars, chatVars, studyVars, agendaVars,
                   users, nextUserId, notifications>>

\* add_reminder_command (/hatirlatici): user_id is the Telegram id of the
\* sender, remind_at the parsed date.
HatirlaticiCommand(tg, at) == AddReminder(tg, at)

\* The filter of get_pending_reminders.
PendingRemindersAnyTime == {r \in reminders : ~r.is_sent}

PendingReminders == {r \in reminders : ~r.is_sent /\ r.remind_at <= now}

\* get_pending_reminders()
GetPendingReminders ==
    /\ call' = [op |-> "get_pending_reminders", user |-> 0, arg |-> 0,
                ret |-> PendingReminders]
    /\ UNCHANGED <<now, quizVars, procVars, llmVars, sessVars, chatVars, studyVars, agendaVars, remVars>>

\* reminder.is_sent = True
MarkSentToggle(r) == [r EXCEPT !.is_sent = ~r.is_sent]

MarkSent(r) == [r EXCEPT !.is_sent = TRUE]

\* The reminders table after mark_reminder_sent(reminder_id).
AfterMarkReminderSentKept(rid) == reminders

AfterMarkReminderSent(rid) ==
    {IF r.id = rid THEN MarkSent(r) ELSE r : r \in reminders}

\* mark_reminder_sent(reminder_id)
MarkReminderSent(rid) ==
    /\ reminders' = AfterMarkReminderSent(rid)
    /\ call' = [op |-> "mark_reminder_sent", user |-> 0, arg |-> rid,
                ret |-> (\E r \in reminders : r.id = rid)]
    /\ UNCHANGED <<now, quizVars, procVars, llmVars, sessVars, chatVars, studyVars, agendaVars,
                   users, nextUserId, nextReminderId, notifications>>

\* check_reminders runs as an APScheduler job on a worker thread of the
\* BackgroundScheduler; no asyncio event loop runs in that thread, so
\* asyncio.create_task raises RuntimeError.
CreateTaskSchedules == FALSE

CreateTaskRaises == TRUE

\* session.query(User).filter_by(id=reminder.user_id).first()
ReminderUser(r) == {usr \in users : usr.id = r.user_id}

\* check_reminders(): one sweep; the call record keeps the ids of the
\* reminders it dispatched.  Reminders whose user lookup finds nothing
\* are skipped; the first one with a user reaches create_task, whose
\* exception leaves the loop and is logged by the outer handler.
Sweep ==
    LET found == {r \in PendingReminders : ReminderUser(r) # {}}
    IN  /\ IF CreateTaskRaises
           THEN /\ UNCHANGED <<reminders, notifications>>
                /\ call' = [op |-> "check_reminders", user |-> 0, arg |-> {},
                            ret |-> IF found = {} THEN "done" ELSE "error"]
           ELSE /\ notifications' = notifications \cup
                       {[telegram_id |-> x[2].telegram_id, reminder |-> x[1].id] :
                            x \in {y \in found \X users : y[2].id = y[1].user_id}}
                /\ reminders' = {IF r \in found THEN MarkSent(r) ELSE r :
                                     r \in reminders}
                /\ call' = [op |-> "check_reminders", user |-> 0,
                            arg |-> {r.id : r \in found}, ret |-> "done"]
        /\ UNCHANGED <<now, quizVars, tempFiles, boot, botVars, llmVars,
                       sessVars, chatVars, studyVars, agendaVars, users,
                       nextUserId, nextReminderId>>

\* The sweep as the specifications of the persistence layer run it, with
\* the scheduler left aside.
CheckReminders == Sweep /\ UNCHANGED schedVars

\* --------------------------------------------------------- free text
\* command_hints of handle_message, in the order of the dict literal; a
\* phrase is the sequence of its words, written without diacritics.
CommandHints ==
    << [hint |-> <<"not", "ekle">>,         command |-> "/not_ekle"],
       [hint |-> <<"not", "sil">>,          command |-> "/not_sil"],
       [hint |-> <<"notlarim">>,            command |-> "/notlar"],
       [hint |-> <<"notlari", "goster">>,   command |-> "/notlar"],
       [hint |-> <<"not", "ara">>,          command |-> "/not_ara"],
       [hint |-> <<"gorev", "ekle">>,       command |-> "/gorev_ekle"],
       [hint |-> <<"gorev", "sil">>,        command |-> "/gorev_sil"],
       [hint |-> <<"gorevlerim">>,          command |-> "/gorevler"],
       [hint |-> <<"gorevleri", "goster">>, command |-> "/gorevler"],
       [hint |-> <<"bugunku", "gorevler">>, command |-> "/bugun"],
       [hint |-> <<"gorev", "tamamla">>,    command |-> "/gorev_tamamla"],
       [hint |-> <<"hatirlatici">>,         command |-> "/hatirlatici"],
       [hint |-> <<"hatirlatici", "ekle">>, command |-> "/hatirlatici"],
       [hint |-> <<"yardim">>,              command |-> "/yardim"],
       [hint |-> <<"komutlar">>,            command |-> "/yardim"] >>

\* user_message.lower(), word by word.
LowerWord(w) == IF w = "Not" THEN "not" ELSE w

LowerMessage(text) == [i \in 1..Len(text) |-> LowerWord(text[i])]

\* `hint in lower_message`
HintInWholeOnly(hint, lowered) == hint = lowered

HintIn(hint, lowered) ==
    \E i \in 1..(Len(lowered) - Len(hint) + 1) :
        \A j \in 1..Len(hint) : lowered[i + j - 1] = hint[j]

\* The first entry the loop over command_hints.items() matches (0: none).
FirstHint(lowered) ==
    LET I == {i \in 1..Len(CommandHints) : HintIn(CommandHints[i].hint, lowered)}
    IN  IF I = {} THEN 0 ELSE CHOOSE i \in I : \A j \in I : i <= j

\* handle_message(update, bot_context).  Without a matching phrase the
\* handler calls self.ai_assistant.simple_chat, a method AIAssistant does
\* not have: the AttributeError is caught by the handler's except block,
\* which replies with the apology.
HandleMessage(tg, text) ==
    LET i == FirstHint(LowerMessage(text))
    IN  /\ call' = [op |-> "handle_message", user |-> tg, arg |-> text,
                    ret |-> IF i # 0
                            THEN [reply |-> "suggestion",
                                  command |-> CommandHints[i].command]
                            ELSE [reply |-> "apology", command |-> ""]]
        /\ UNCHANGED <<now, quizVars, procVars, llmVars, sessVars, chatVars,
                       studyVars, agendaVars, remVars>>

\* -------------------------------------------------------- image upscale
\* temp_images/user_{user_id}_{file_id}.jpg and its _upscaled.jpg
InputPath(u, photo) == [user |-> u, photo |-> photo, kind |-> "input"]

OutputPath(u, photo) == [user |-> u, photo |-> photo, kind |-> "upscaled"]

\* cleanup_file(file_path): os.remove when the file exists.
CleanupFile(files, path) == files \ {path}

\* Where process_upscale_photo may leave through `except Exception`, or
\* return, and the temp files it has written by then.  `partial` says
\* whether a download that failed had already created its file.
UpscaleExits(u, photo) ==
    LET in  == InputPath(u, photo)
        out == OutputPath(u, photo)
        exit(at, ret, files) == [at |-> at, ret |-> ret, files |-> files]
    IN  {exit("get_file raised", "error", tempFiles)}
        \cup {exit("download_photo raised", "error",
                   IF partial THEN tempFiles \cup {in} ELSE tempFiles) :
                  partial \in BOOLEAN}
        \cup {exit("upscale_image returned None", "failed",
                   CleanupFile(tempFiles \cup {in}, in)),
              exit("edit_text raised", "error", tempFiles \cup {in})}
        \cup {exit("download_image returned False", "failed",
                   CleanupFile((IF partial THEN tempFiles \cup {out}
                                ELSE tempFiles) \cup {in}, in)) :
                  partial \in BOOLEAN}
        \cup {exit("reply_photo raised", "error", tempFiles \cup {in, out}),
              exit("sent", "done",
                   CleanupFile(CleanupFile(tempFiles \cup {in, out}, in), out))}

\* process_upscale_photo(update, context)
ProcessUpscalePhoto(u, photo) ==
    /\ \E x \in UpscaleExits(u, photo) :
          /\ tempFiles' = x.files
          /\ call' = [op |-> "process_upscale_photo", user |-> u,
                      arg |-> [photo |-> photo, exit |-> x.at], ret |-> x.ret]
    /\ UNCHANGED <<now, quizVars, llmVars, sessVars, boot, botVars, schedVars,
                   chatVars, studyVars, agendaVars, remVars>>

\* cleanup_old_files(max_age_hours): removes the files older than the
\* limit; which files those are depends on their mtime.
CleanupOldFiles ==
    /\ \E old \in SUBSET tempFiles :
          /\ old # {}
          /\ tempFiles' = tempFiles \ old
    /\ call' = [op |-> "cleanup_old_files", user |-> 0, arg |-> 0, ret |-> 0]
    /\ UNCHANGED <<now, quizVars, llmVars, sessVars, boot, botVars, schedVars,
                   chatVars, studyVars, agendaVars, remVars>>

\* ------------------------------------------------------- course commands
\* TelegramBot.PREDEFINED_COURSES, scaled down to one course of two topics.
PREDEFINED_COURSES ==
    << [name |-> <<"A">>, description |-> "d1",
        topics |-> << <<"A">>, <<"C">> >>] >>

\* get_or_create_user(telegram_id, ...) as the handlers use it: the users
\* table afterwards and the row's primary key (db_user.id).
DbUser(tg, names) ==
    LET found == {usr \in users : usr.telegram_id = tg}
    IN  IF found # {}
        THEN LET usr == CHOOSE x \in found : TRUE
             IN  [users |-> (users \ {usr}) \cup
                       {[usr EXCEPT
                           !.username = KeepOrUpdate(names[1], usr.username),
                           !.first_name = KeepOrUpdate(names[2], usr.first_name),
                           !.last_name = KeepOrUpdate(names[3], usr.last_name),
                           !.last_active = now]},
                  nextUserId |-> nextUserId, id |-> usr.id]
        ELSE [users |-> users \cup
                   {[id |-> nextUserId, telegram_id |-> tg,
                     username |-> names[1], first_name |-> names[2],
                     last_name |-> names[3],
                     created_at |-> now, last_active |-> now]},
              nextUserId |-> nextUserId + 1, id |-> nextUserId]

\* for week, topic_title in enumerate(course_data["topics"], 1):
\*     add_topic(course_id, topic_title, week)
RECURSIVE LoadTopics(_, _, _, _)
LoadTopics(db, cid, titles, week) ==
    IF week > Len(titles) THEN db
    ELSE LET title == titles[week]
             existing == {t \in db.topics : t.course_id = cid /\ t.title = title}
             topic == [id |-> db.nextTopicId, course_id |-> cid,
                       title |-> title, week_number |-> week,
                       is_completed |-> FALSE, completed_at |-> NoTime]
             count == Cardinality(CourseTopics(db.topics \cup {topic}, cid))
             after ==
                 IF existing # {} THEN db
                 ELSE [db EXCEPT
                         !.topics = @ \cup {topic},
                         !.nextTopicId = @ + 1,
                         !.courses = {IF c.id = cid
                                      THEN [c EXCEPT !.total_topics = TotalAfterAdd(count)]
                                      ELSE c : c \in db.courses}]
         IN  LoadTopics(after, cid, titles, week + 1)

\* for course_data in PREDEFINED_COURSES: add_course(db_user.id, name,
\* description), then its topics.
RECURSIVE LoadCourses(_, _, _)
LoadCourses(db, u, i) ==
    IF i > Len(PREDEFINED_COURSES) THEN db
    ELSE LET cd == PREDEFINED_COURSES[i]
             existing == {c \in db.courses : c.user_id = u /\ c.name = cd.name}
             cid == IF existing # {} THEN (CHOOSE c \in existing : TRUE).id
                    ELSE db.nextCourseId
             added ==
                 IF existing # {}
                 THEN [db EXCEPT !.courses =
                          {IF c \in existing
                           THEN [c EXCEPT !.description = cd.description]
                           ELSE c : c \in db.courses}]
                 ELSE [db EXCEPT
                         !.courses = @ \cup
                             {[id |-> cid, user_id |-> u, name |-> cd.name,
                               description |-> cd.description,
                               total_topics |-> 10, completed_topics |-> 0]},
                         !.nextCourseId = @ + 1]
         IN  LoadCourses(LoadTopics(added, cid, cd.topics, 1), u, i + 1)

\* load_courses_command (/dersler_yukle): the courses are stored under the
\* primary key of the sender's users row.
LoadCoursesCommand(tg, names) ==
    LET usr == DbUser(tg, names)
        db  == LoadCourses([courses |-> courses, nextCourseId |-> nextCourseId,
                            topics |-> topics, nextTopicId |-> nextTopicId],
                           usr.id, 1)
    IN  /\ users' = usr.users
        /\ nextUserId' = usr.nextUserId
        /\ courses' = db.courses
        /\ nextCourseId' = db.nextCourseId
        /\ topics' = db.topics
        /\ nextTopicId' = db.nextTopicId
        /\ call' = [op |-> "load_courses_command", user |-> tg,
                    arg |-> usr.id, ret |-> "loaded"]
        /\ UNCHANGED <<now, chatVars, agendaVars, quizVars, procVars, llmVars,
                       sessVars, progress, completions, reminders,
                       nextReminderId, notifications>>

\* ----------------------------------------------------------------- quiz
\* next(c for c in get_user_courses(db_user.id)
\*      if course_name.lower() in c['name'].lower()): the courses come
\* ordered by id.
QuizCourse(u, cref) ==
    LET matching == CoursesMatching(u, cref)
    IN  {c \in matching : \A o \in matching : c.id <= o.id}

\* completed_topics[-1] if completed_topics else topics[0], on the topics
\* ordered by week_number.
QuizTopic(cid) ==
    LET ts   == CourseTopics(topics, cid)
        done == {t \in ts : t.is_completed}
    IN  IF done # {}
        THEN {t \in done : \A o \in done : o.week_number <= t.week_number}
        ELSE {t \in ts : \A o \in ts : t.week_number <= o.week_number}

\* The message _send_quiz_question sends for question idx of a quiz: its
\* buttons carry callback_data "quiz_<letter>" and nothing else; the run
\* and the question are what the user sees above the buttons.
Keyboard(tg, run, idx) == [user |-> tg, run |-> run, question |-> idx]

\* quiz_command (/quiz <ders>); `sheet` is what generate_quiz returned,
\* the correct letter of each question, empty when it produced nothing;
\* `sent` is whether send_message for the first question went through
\* (it raises when the question text does not parse as Markdown, and the
\* handler's except replies with an error and leaves the state stored).
QuizCommand(tg, cref, sheet, sent) ==
    LET usr == DbUser(tg, <<NoName, NoName, NoName>>)
        reply(text) == call' = [op |-> "quiz_command", user |-> tg,
                                arg |-> cref, ret |-> text]
    IN  /\ quizRuns < MaxQuizRuns
        /\ IF ~llm.available
           THEN /\ reply("unavailable")
                /\ UNCHANGED <<users, nextUserId, botVars>>
           ELSE IF cref = <<>>
           THEN /\ reply("usage")
                /\ UNCHANGED <<users, nextUserId, botVars>>
           ELSE /\ users' = usr.users
                /\ nextUserId' = usr.nextUserId
                /\ IF QuizCourse(usr.id, cref) = {}
                   THEN reply("no course") /\ UNCHANGED botVars
                   ELSE \E course \in QuizCourse(usr.id, cref) :
                     IF QuizTopic(course.id) = {}
                     THEN reply("no topic") /\ UNCHANGED botVars
                     ELSE \E topic \in QuizTopic(course.id) :
                       IF sheet = <<>>
                       THEN reply("no questions") /\ UNCHANGED botVars
                       ELSE /\ quizRuns' = quizRuns + 1
                            /\ activeQuiz' = [activeQuiz EXCEPT ![tg] =
                                  [run |-> quizRuns + 1, questions |-> sheet,
                                   current_index |-> 0, score |-> 0,
                                   topic_id |-> topic.id,
                                   user_db_id |-> usr.id]]
                            /\ keyboards' =
                                  IF sent
                                  THEN keyboards \cup {Keyboard(tg, quizRuns + 1, 0)}
                                  ELSE keyboards
                            /\ reply(IF sent THEN "started" ELSE "error")
        /\ UNCHANGED <<now, chatVars, studyVars, agendaVars, quizVars, llmVars,
                       sessVars, tempFiles, boot, schedVars, reminders,
                       nextReminderId, notifications>>

\* if selected == correct: quiz['score'] += 1, on the dict user_data holds.
Scored(quiz, letter) ==
    IF letter = quiz.questions[quiz.current_index + 1]
    THEN [quiz EXCEPT !.score = @ + 1]
    ELSE quiz

\* button_callback -> _handle_quiz_answer for a click on a button of the
\* message kb, and _finish_quiz or _send_quiz_question after it.
\* `edited` is whether query.edit_message_text went through, which takes
\* the buttons off the clicked message: it raises BadRequest when the
\* explanation the model wrote does not parse as Markdown, and on a
\* network error; the exception leaves the handler after the score was
\* counted and before current_index moves.  `sent` is the same for the
\* message of the next question.
HandleQuizAnswer(tg, kb, letter, edited, sent) ==
    LET quiz == activeQuiz[tg]
        reply(text) == call' = [op |-> "_handle_quiz_answer", user |-> tg,
                                arg |-> [keyboard |-> kb, letter |-> letter,
                                         before |-> quiz],
                                ret |-> text]
    IN  /\ kb \in keyboards
        /\ kb.user = tg
        /\ IF quiz = NoQuiz
           THEN /\ keyboards' = IF edited THEN keyboards \ {kb} ELSE keyboards
                /\ reply("no active quiz")
                /\ UNCHANGED <<activeQuiz, quizRuns, quizzes>>
           ELSE IF ~edited
           THEN /\ quiz.score <= MaxQuestions
                /\ activeQuiz' = [activeQuiz EXCEPT ![tg] = Scored(quiz, letter)]
                /\ reply("edit raised")
                /\ UNCHANGED <<keyboards, quizRuns, quizzes>>
           ELSE LET next == [Scored(quiz, letter) EXCEPT !.current_index = @ + 1]
                IN  IF next.current_index >= Len(next.questions)
                    THEN /\ activeQuiz' = [activeQuiz EXCEPT ![tg] = NoQuiz]
                         /\ quizzes' = quizzes (+)
                               SetToBag({QuizRow(next.user_db_id, next.topic_id,
                                                 next.score, Len(next.questions))})
                         /\ keyboards' = keyboards \ {kb}
                         /\ reply("finished")
                         /\ UNCHANGED quizRuns
                    ELSE /\ activeQuiz' = [activeQuiz EXCEPT ![tg] = next]
                         /\ keyboards' = (keyboards \ {kb}) \cup
                               (IF sent
                                THEN {Keyboard(tg, next.run, next.current_index)}
                                ELSE {})
                         /\ reply(IF sent THEN "next question" ELSE "send raised")
                         /\ UNCHANGED <<quizRuns, quizzes>>
        /\ UNCHANGED <<now, chatVars, studyVars, agendaVars, remVars, llmVars,
                       sessVars, tempFiles, boot, schedVars>>

\* -------------------------------------------------------- study commands
\* today_command (/bugun): user_id is update.effective_user.id, the
\* Telegram id, for the tasks and for get_next_topics(user_id, limit=3).
TodayCommand(tg) ==
    /\ \E s \in OrderedByCourseAndWeek(OpenTopics(tg)) :
           call' = [op |-> "today_command", user |-> tg, arg |-> 0,
                    ret |-> [tasks |-> TodayTasks(tg),
                             next_topics |->
                                 [i \in 1..Min(3, Len(s)) |-> TopicInfo(s[i])]]]
    /\ UNCHANGED <<now, chatVars, studyVars, agendaVars, remVars, quizVars,
                   procVars, llmVars, sessVars>>

\* continue_command (/devam): get_next_topic(db_user.id).
ContinueCommand(tg) ==
    LET usr == DbUser(tg, <<NoName, NoName, NoName>>)
    IN  /\ users' = usr.users
        /\ nextUserId' = usr.nextUserId
        /\ \E s \in OrderedByCourseAndWeek(OpenTopics(usr.id)) :
               call' = [op |-> "continue_command", user |-> tg, arg |-> usr.id,
                        ret |-> [i \in 1..Min(1, Len(s)) |-> TopicInfo(s[i])]]
        /\ UNCHANGED <<now, chatVars, studyVars, agendaVars, quizVars, procVars,
                       llmVars, sessVars, reminders, nextReminderId,
                       notifications>>

\* learn_command (/ogren <ders> <konu>).  `answered` is whether
\* generate_content_async returned: AITeacher.explain_topic catches its
\* exception and returns a dict whose explanation is the error text, so
\* the handler goes on either way.  `sent` is whether reply_text of the
\* explanation went through; its exception goes to the handler's except.
\* After the reply the topic is marked with mark_topic_completed(
\* db_user.id, course, topic); call.arg keeps the id of the topic that was
\* resolved (0: none).
LearnCommand(tg, cref, tref, answered, sent) ==
    LET usr == DbUser(tg, <<NoName, NoName, NoName>>)
        reply(text, tid) ==
            call' = [op |-> "learn_command", user |-> tg,
                     arg |-> [llm |-> IF answered THEN "answered" ELSE "raised",
                              topic |-> tid],
                     ret |-> text]
        kept == UNCHANGED <<topics, courses, progress, completions>>
    IN  /\ IF ~llm.available
           THEN reply("unavailable", 0) /\ kept /\ UNCHANGED <<users, nextUserId>>
           ELSE IF cref = <<>> \/ tref = <<>>
           THEN reply("usage", 0) /\ kept /\ UNCHANGED <<users, nextUserId>>
           ELSE IF ~sent
           THEN reply("error", 0) /\ kept /\ UNCHANGED <<users, nextUserId>>
           ELSE /\ users' = usr.users
                /\ nextUserId' = usr.nextUserId
                /\ IF CoursesMatching(usr.id, cref) = {}
                   THEN reply("explained", 0) /\ kept
                   ELSE \E course \in CoursesMatching(usr.id, cref) :
                          IF TopicsMatching(course, tref) = {}
                          THEN reply("explained", 0) /\ kept
                          ELSE \E topic \in TopicsMatching(course, tref) :
                                 /\ CompleteTopic(usr.id, course, topic)
                                 /\ reply("explained", topic.id)
        /\ UNCHANGED <<now, chatVars, agendaVars, quizVars, procVars, llmVars,
                       sessVars, nextCourseId, nextTopicId, reminders,
                       nextReminderId, notifications>>

\* ------------------------------------------------------------ scheduler
\* ReminderScheduler.__init__: a BackgroundScheduler that is not started
\* and whose job store is empty.  last_run is the instant the interval
\* trigger counts from, logged the number of sweeps whose exception was
\* logged.
Created == [is_running |-> FALSE, jobs |-> <<>>, last_run |-> NoTime, logged |-> 0]

\* scheduler.add_job(..., id=id, replace_existing=True): the job takes the
\* place of the one with the same id, and is appended when there is none.
AddJob(jobs, id) ==
    IF \E i \in 1..Len(jobs) : jobs[i] = id THEN jobs ELSE Append(jobs, id)

\* ReminderScheduler.start(): does nothing when is_running is set.
SchedulerStart(s) ==
    IF s.is_running THEN s
    ELSE [s EXCEPT !.is_running = TRUE,
                   !.jobs = AddJob(s.jobs, "reminder_checker"),
                   !.last_run = now]

\* ReminderScheduler.stop(): scheduler.shutdown(wait=False) when running;
\* whether the job store keeps its jobs over a shutdown is left open.
SchedulerStop(s, kept) ==
    IF s.is_running
    THEN [s EXCEPT !.is_running = FALSE, !.jobs = IF kept THEN @ ELSE <<>>]
    ELSE s

\* reminder_scheduler.start()
Start ==
    /\ scheduler' = SchedulerStart(scheduler)
    /\ call' = [op |-> "start", user |-> 0, arg |-> 0, ret |-> 0]
    /\ UNCHANGED <<now, quizVars, tempFiles, boot, botVars, llmVars, sessVars,
                   chatVars, studyVars, agendaVars, remVars>>

\* reminder_scheduler.stop()
Stop ==
    /\ \E kept \in BOOLEAN : scheduler' = SchedulerStop(scheduler, kept)
    /\ call' = [op |-> "stop", user |-> 0, arg |-> 0, ret |-> 0]
    /\ UNCHANGED <<now, quizVars, tempFiles, boot, botVars, llmVars, sessVars,
                   chatVars, studyVars, agendaVars, remVars>>

\* The jobs of the store that carry the id.
JobsWithId(s, id) == {i \in 1..Len(s.jobs) : s.jobs[i] = id}

\* What a run of the job leaves of the scheduler: check_reminders logs
\* its own exceptions, _check_reminders those of the callback, and the
\* interval job stays in the store.
AfterRunUnscheduled(s, failed) ==
    [s EXCEPT !.last_run = now,
              !.logged = IF failed THEN @ + 1 ELSE @,
              !.jobs = IF failed THEN <<>> ELSE @]

AfterRun(s, failed) ==
    [s EXCEPT !.last_run = now, !.logged = IF failed THEN @ + 1 ELSE @]

\* The interval trigger fires the job 'reminder_checker' once an interval
\* (a clock tick) has passed since the last run: _check_reminders() calls
\* check_reminders().
JobFires ==
    /\ scheduler.is_running
    /\ JobsWithId(scheduler, "reminder_checker") # {}
    /\ scheduler.last_run < now
    /\ Sweep
    /\ scheduler' = AfterRun(scheduler, call'.ret = "error")

\* The scheduler after initialize_components().
Scheduled == SchedulerStart(Created)

\* -------------------------------------------------------------- startup
\* The process before main(): what the environment holds for the two
\* required secrets.
Started(gemini, telegram) ==
    [pc |-> "import", gemini |-> gemini, telegram |-> telegram,
     logged |-> FALSE, db |-> FALSE, scheduler |-> FALSE, bot |-> FALSE,
     status |-> NoTime]

\* sys.exit(status), or an exception that ends the interpreter.
Exit(status) == boot' = [boot EXCEPT !.pc = "exited", !.status = status]

Step(pc) == boot' = [boot EXCEPT !.pc = pc]

BootFrame ==
    UNCHANGED <<now, call, tempFiles, botVars, quizVars, llmVars, sessVars,
                chatVars, studyVars, agendaVars, remVars>>

\* The imports at the top of main.py.  Line 11 imports REPLICATE_API_TOKEN
\* from config, a name config.py in this tree does not define: there the
\* import raises ImportError and the interpreter exits with status 1
\* before main() is called.  With a config that defines the name main()
\* is called.
ImportModules ==
    /\ boot.pc = "import"
    /\ \/ Exit(1)
       \/ Step("main")
    /\ UNCHANGED schedVars
    /\ BootFrame

\* print_banner(); setup_logging(): an exception (logs directory or file
\* not writable) goes to `except Exception`: logger.error, sys.exit(1).
SetupLogging ==
    /\ boot.pc = "main"
    /\ \/ boot' = [boot EXCEPT !.pc = "exited", !.status = 1, !.logged = TRUE]
       \/ Step("check_config")
    /\ UNCHANGED schedVars
    /\ BootFrame

\* check_config(): False when a required secret is empty.
CheckConfigEither(gemini, telegram) == gemini \/ telegram

CheckConfig(gemini, telegram) == gemini /\ telegram

\* if not check_config(): logger.error(...); sys.exit(1).  SystemExit is
\* not an Exception, so the handlers of main() let it through.
CheckConfigStep ==
    /\ boot.pc = "check_config"
    /\ IF CheckConfig(boot.gemini, boot.telegram)
       THEN Step("initialize_database")
       ELSE boot' = [boot EXCEPT !.pc = "exited", !.status = 1, !.logged = TRUE]
    /\ UNCHANGED schedVars
    /\ BootFrame

\* initialize_components(), first part: DatabaseManager(); an exception
\* is logged and re-raised, main() logs it and exits with status 1.
InitializeDatabase ==
    /\ boot.pc = "initialize_database"
    /\ \/ boot' = [boot EXCEPT !.pc = "exited", !.status = 1, !.logged = TRUE]
       \/ boot' = [boot EXCEPT !.pc = "initialize_bot", !.db = TRUE]
    /\ UNCHANGED schedVars
    /\ BootFrame

\* AIAssistant, AITeacher, NotesManager, ScheduleManager, TelegramBot.
InitializeBot ==
    /\ boot.pc = "initialize_bot"
    /\ \/ boot' = [boot EXCEPT !.pc = "exited", !.status = 1, !.logged = TRUE]
       \/ boot' = [boot EXCEPT !.pc = "start_scheduler", !.bot = TRUE]
    /\ UNCHANGED schedVars
    /\ BootFrame

\* ReminderScheduler(reminder_callback=check_reminders).start()
StartScheduler ==
    /\ boot.pc = "start_scheduler"
    /\ \/ /\ boot' = [boot EXCEPT !.pc = "exited", !.status = 1, !.logged = TRUE]
          /\ UNCHANGED schedVars
       \/ /\ boot' = [boot EXCEPT !.pc = "running", !.scheduler = TRUE]
          /\ scheduler' = SchedulerStart(scheduler)
    /\ BootFrame

\* A command handler runs only under telegram_bot.run().
HandlesRequests == boot.pc = "running"

\* The interval job runs once the scheduler is started, until the process
\* exits.
Sweeps == boot.scheduler /\ boot.pc # "exited"

\* ------------------------------------------------------ specifications
\* The database after create_tables() on an empty file.
EmptyTables ==
    /\ now = 0
    /\ chat = {}
    /\ nextChatId = 1
    /\ courses = {}
    /\ nextCourseId = 1
    /\ topics = {}
    /\ nextTopicId = 1
    /\ progress = {}
    /\ completions = {}
    /\ notes = {}
    /\ nextNoteId = 1
    /\ tasks = {}
    /\ nextTaskId = 1
    /\ users = {}
    /\ nextUserId = 1
    /\ reminders = {}
    /\ nextReminderId = 1
    /\ notifications = {}
    /\ quizzes = EmptyBag
    /\ session = Idle
    /\ tempFiles = {}
    /\ activeQuiz = [tg \in TelegramIds |-> NoQuiz]
    /\ keyboards = {}
    /\ quizRuns = 0
    /\ call = NoCall

\* main() has reached telegram_bot.run() with both secrets set.
Running ==
    [pc |-> "running", gemini |-> TRUE, telegram |-> TRUE, logged |-> FALSE,
     db |-> TRUE, scheduler |-> TRUE, bot |-> TRUE, status |-> NoTime]

\* AIAssistant.__init__ found a model that answers.
Init ==
    /\ EmptyTables
    /\ llm = [available |-> TRUE, calls |-> 0]
    /\ boot = Running
    /\ scheduler = Scheduled

\* AIAssistant.__init__ with or without a usable key and model.
InitAI ==
    /\ EmptyTables
    /\ llm \in [available : BOOLEAN, calls : {0}]
    /\ boot = Running
    /\ scheduler = Scheduled

TickChat ==
    Tick(MaxChatTime) /\ call' = NoCall /\ UNCHANGED <<chatVars, studyVars, agendaVars, remVars, quizVars, procVars, llmVars, sessVars>>

\* A conversation as AIAssistant.chat records it: the user's message under
\* "user", the reply under "model", while the clock runs.
NextChat ==
    \/ TickChat
    \/ \E u \in Users, role \in WrittenRoles : AddChatMessage(u, role)
    \/ \E u \in Users, limit \in 1..MaxLimit : GetChatHistory(u, limit)

SpecChat == Init /\ [][NextChat]_vars

\* add_chat_message run statement by statement, with storage errors, next
\* to a reader on another connection.
NextChatTxn ==
    \/ TickChat
    \/ \E u \in Users, role \in WrittenRoles : InsertChatMessage(u, role)
    \/ CleanupStep
    \/ \E u \in Users, limit \in 1..MaxLimit : GetChatHistory(u, limit)

SpecChatTxn == Init /\ [][NextChatTxn]_vars

\* Conversations with the assistant while the clock runs.
NextAI ==
    \/ TickChat
    \/ \E u \in Users : Chat(u)

SpecAI == InitAI /\ [][NextAI]_vars

\* Callers that store any role string, within one clock reading.
NextRoles ==
    \/ \E u \in Users, role \in Roles : AddChatMessage(u, role)
    \/ \E u \in Users, limit \in 1..MaxLimit : GetChatHistory(u, limit)

SpecRoles == Init /\ [][NextRoles]_vars

\* A day passes.
NextDay ==
    Tick(MaxStudyTime) /\ call' = NoCall /\ UNCHANGED <<chatVars, studyVars, agendaVars, remVars, quizVars, procVars, llmVars, sessVars>>

\* One user builds courses whose names and topic titles contain one
\* another; both users issue completion calls.
NextStudy ==
    \/ NextDay
    \/ \E name \in CourseNames : AddCourse(1, name, "d1")
    \/ \E cid \in 1..MaxCourses, title \in CourseNames :
           AddTopic(cid, title, WeekOf(title), MaxTopics)
    \/ \E u \in Users, cref \in Refs, tref \in Refs :
           MarkTopicCompleted(u, cref, tref)
    \/ \E u \in Users, tid \in 1..MaxTopics : MarkTopicCompletedById(u, tid)
    \/ \E u \in Users : GetStreak(u)

SpecStudy == Init /\ [][NextStudy]_vars

\* One user studying one course over several days (the other user only
\* issues calls).
NextStreakDay ==
    Tick(MaxStreakTime) /\ call' = NoCall /\ UNCHANGED <<chatVars, studyVars, agendaVars, remVars, quizVars, procVars, llmVars, sessVars>>

NextStreak ==
    \/ NextStreakDay
    \/ AddCourse(1, <<"A">>, "d1")
    \/ \E title \in Names : AddTopic(1, title, WeekOf(title), MaxStreakTopics)
    \/ \E u \in Users, cref \in Refs, tref \in Refs :
           MarkTopicCompleted(u, cref, tref)
    \/ \E u \in Users, tid \in 1..MaxStreakTopics : MarkTopicCompletedById(u, tid)

SpecStreak == Init /\ [][NextStreak]_vars

\* Two users working on their own and on each other's notes, tasks and
\* topics (one course per user, one topic per course).
NextOwn ==
    \/ \E u \in Users : AddNote(u)
    \/ \E u \in Users, nid \in 1..MaxNotes : DeleteNote(nid, u)
    \/ \E u \in Users : AddTask(u, NoTime, MaxTasks)
    \/ \E u \in Users, tid \in 1..MaxTasks, done \in BOOLEAN :
           UpdateTaskStatus(tid, u, done)
    \/ \E u \in Users, tid \in 1..MaxTasks : DeleteTask(tid, u)
    \/ \E u \in Users : AddCourse(u, <<"A">>, "d1")
    \/ \E cid \in 1..MaxCourses : AddTopic(cid, <<"A">>, WeekOf(<<"A">>), MaxTopics)
    \/ \E u \in Users, tid \in 1..MaxTopics : MarkTopicCompletedById(u, tid)

SpecOwn == Init /\ [][NextOwn]_vars

\* Two users load courses and topics in any order, complete topics and ask
\* what comes next.
NextSyllabus ==
    \/ \E u \in Users, name \in CourseNames : AddCourse(u, name, "d1")
    \/ \E cid \in 1..MaxCourses, title \in CourseNames :
           AddTopic(cid, title, WeekOf(title), MaxTopics)
    \/ \E u \in Users, tid \in 1..MaxTopics : MarkTopicCompletedById(u, tid)
    \/ \E u \in Users, limit \in 1..MaxLimit : GetNextTopics(u, limit)
    \/ \E u \in Users : GetNextTopic(u)

SpecSyllabus == Init /\ [][NextSyllabus]_vars

\* Two users add courses again and again under changing descriptions,
\* around topics being added and completed.
NextCatalog ==
    \/ \E u \in Users, name \in CourseNames, desc \in Descriptions :
           AddCourse(u, name, desc)
    \/ \E cid \in 1..MaxCourses :
           AddTopic(cid, <<"A">>, WeekOf(<<"A">>), MaxTopics)
    \/ \E u \in Users, tid \in 1..MaxTopics : MarkTopicCompletedById(u, tid)

SpecCatalog == Init /\ [][NextCatalog]_vars

\* Topic completions run statement by statement, with storage errors.
NextTxn ==
    \/ /\ session = Idle
       /\ \E name \in CourseNames : AddCourse(1, name, "d1")
    \/ /\ session = Idle
       /\ \E cid \in 1..MaxCourses, title \in CourseNames :
              AddTopic(cid, title, WeekOf(title), MaxTopics)
    \/ \E u \in Users, tid \in 1..MaxTopics : BeginMarkTopicCompletedById(u, tid)
    \/ \E u \in Users, cref \in Refs, tref \in Refs :
           BeginMarkTopicCompleted(u, cref, tref)
    \/ FlagAndCount
    \/ UpdateProgressStep
    \/ CommitStep

SpecTxn == Init /\ [][NextTxn]_vars

\* Quizzes of two users on the topics of two courses.
NextQuiz ==
    \/ \E name \in CourseNames : AddCourse(1, name, "d1")
    \/ \E cid \in 1..MaxCourses :
           AddTopic(cid, <<"A">>, WeekOf(<<"A">>), MaxTopics)
    \/ \E u \in Users, tid \in 1..MaxTopics, st \in QuizScores :
           AddQuizResult(u, tid, st[1], st[2])
    \/ \E u \in Users, cid \in 1..MaxCourses : GetAvgQuizScore(u, cid)

SpecQuiz == Init /\ [][NextQuiz]_vars

TickAgenda ==
    Tick(MaxAgendaTime) /\ call' = NoCall
        /\ UNCHANGED <<chatVars, studyVars, agendaVars, remVars, quizVars, procVars, llmVars, sessVars>>

\* The agenda: tasks with due dates are created, completed, reopened and
\* listed while the clock runs.
NextAgenda ==
    \/ TickAgenda
    \/ \E u \in Users, due \in DueDates : AddTask(u, due, MaxAgendaTasks)
    \/ \E u \in Users, tid \in 1..MaxAgendaTasks, done \in BOOLEAN :
           UpdateTaskStatus(tid, u, done)
    \/ \E u \in Users : GetTodayTasks(u)

SpecAgenda == Init /\ [][NextAgenda]_vars

TickRem ==
    Tick(MaxRemTime) /\ call' = NoCall
        /\ UNCHANGED <<chatVars, studyVars, agendaVars, remVars, quizVars, procVars, llmVars, sessVars>>

\* The reminder operations of the persistence layer.
NextRem ==
    \/ TickRem
    \/ \E u \in Users, at \in 0..MaxRemTime : AddReminder(u, at)
    \/ \E rid \in 1..MaxReminders : MarkReminderSent(rid)
    \/ GetPendingReminders

SpecRem == Init /\ [][NextRem]_vars

\* The bot: people register (/start), create reminders (/hatirlatici), and
\* the scheduler runs the sweep every REMINDER_CHECK_INTERVAL seconds.
NextSweep ==
    \/ TickRem
    \/ \E tg \in TelegramIds : GetOrCreateUser(tg, <<NoName, NoName, NoName>>)
    \/ \E tg \in TelegramIds, at \in 0..MaxRemTime : HatirlaticiCommand(tg, at)
    \/ CheckReminders

SpecSweep == Init /\ [][NextSweep]_vars

TickUsers ==
    Tick(MaxUserTime) /\ call' = NoCall
        /\ UNCHANGED <<chatVars, studyVars, agendaVars, remVars, quizVars, procVars, llmVars, sessVars>>

\* People contact the bot again and again under changing names.
NextUsers ==
    \/ TickUsers
    \/ \E tg \in TelegramIds, names \in Profiles : GetOrCreateUser(tg, names)

SpecUsers == Init /\ [][NextUsers]_vars

\* The interval job keeps firing and the clock keeps running.
FairSpecSweep ==
    SpecSweep /\ WF_vars(CheckReminders) /\ WF_vars(TickRem)

\* Users send photos to /upscale; the housekeeping removes old files.
NextUpscale ==
    \/ \E u \in Users, photo \in 1..MaxPhotos : ProcessUpscalePhoto(u, photo)
    \/ CleanupOldFiles

SpecUpscale == Init /\ [][NextUpscale]_vars

\* The process from its start, with each combination of the two secrets
\* present or missing; once it runs, users add reminders and the sweep
\* looks for due ones.
InitBoot ==
    /\ EmptyTables
    /\ llm = [available |-> TRUE, calls |-> 0]
    /\ boot \in {Started(g, t) : g \in BOOLEAN, t \in BOOLEAN}
    /\ scheduler = Created

NextBoot ==
    \/ ImportModules
    \/ SetupLogging
    \/ CheckConfigStep
    \/ InitializeDatabase
    \/ InitializeBot
    \/ StartScheduler
    \/ /\ HandlesRequests
       /\ \E tg \in TelegramIds, at \in 0..MaxRemTime : HatirlaticiCommand(tg, at)
    \/ /\ Sweeps
       /\ CheckReminders
    \/ /\ boot.pc \notin {"exited"}
       /\ TickRem

SpecBoot == InitBoot /\ [][NextBoot]_vars

\* The quiz log of two users.
NextQuizLog ==
    \/ \E u \in Users, tid \in 1..MaxQuizTopics, st \in QuizEntries :
           AddQuizResult(u, tid, st[1], st[2])
    \/ \E u \in Users : GetTotalQuizzes(u)

SpecQuizLog == Init /\ [][NextQuizLog]_vars

\* Streak updates of two users under a clock that may be set to any date.
NextSkew ==
    \/ ClockSet
    \/ \E u \in Users : StreakUpdate(u, 1)

SpecSkew == Init /\ [][NextSkew]_vars

\* Two users with courses of the same and of different names, completing
\* topics by name.
NextResolve ==
    \/ \E u \in Users, name \in CourseNames : AddCourse(u, name, "d1")
    \/ \E cid \in 1..MaxCourses :
           AddTopic(cid, <<"A">>, WeekOf(<<"A">>), MaxTopics)
    \/ \E u \in Users, cref \in ResolveRefs, tref \in ResolveRefs :
           MarkTopicCompletedTraced(u, cref, tref)

SpecResolve == Init /\ [][NextResolve]_vars

\* Free-text messages of up to MaxWords words.
Messages == UNION {[1..n -> Vocabulary] : n \in 1..MaxWords}

NextText ==
    \E tg \in TelegramIds, text \in Messages : HandleMessage(tg, text)

SpecText == Init /\ [][NextText]_vars

\* What generate_quiz may return: nothing, or one to MaxQuestions
\* questions, whose correct letters alternate.
QuizSheets ==
    {[i \in 1..n |-> IF i % 2 = 1 THEN "A" ELSE "B"] : n \in 0..MaxQuestions}

\* Two people load the courses, start quizzes and click answer buttons
\* that are on their screens.
NextQuizBot ==
    \/ \E tg \in TelegramIds :
          LoadCoursesCommand(tg, <<NoName, NoName, NoName>>)
    \/ \E tg \in TelegramIds, cref \in {<<>>, <<"a">>},
          sheet \in QuizSheets, sent \in BOOLEAN :
          QuizCommand(tg, cref, sheet, sent)
    \/ \E tg \in TelegramIds, kb \in keyboards, letter \in Letters,
          edited \in BOOLEAN, sent \in BOOLEAN :
          HandleQuizAnswer(tg, kb, letter, edited, sent)

SpecQuizBot == Init /\ [][NextQuizBot]_vars

\* The kinds of rows user u has.
Kinds(u) ==
    (IF \E r \in notes \cup tasks : r.user_id = u THEN {"agenda"} ELSE {})
    \cup (IF UserRows(chat, u) # {} THEN {"chat"} ELSE {})
    \cup (IF \E c \in courses : c.user_id = u THEN {"study"} ELSE {})

\* Two users keep notes, tasks, chat messages and courses next to each
\* other and complete topics, each call with the caller's own id and with
\* any row id; each user keeps to one kind of rows in a behaviour.
NextIsolation ==
    \/ \E u \in Users :
          /\ Kinds(u) \subseteq {"agenda"}
          /\ \/ AddNote(u)
             \/ \E nid \in 1..MaxNotes : DeleteNote(nid, u)
             \/ AddTask(u, NoTime, MaxTasks)
             \/ \E tid \in 1..MaxTasks : UpdateTaskStatus(tid, u, TRUE)
             \/ \E tid \in 1..MaxTasks : DeleteTask(tid, u)
    \/ \E u \in Users :
          /\ Kinds(u) \subseteq {"chat"}
          /\ AddChatMessage(u, "user")
    \/ \E u \in Users :
          /\ Kinds(u) \subseteq {"study"}
          /\ \/ AddCourse(u, <<"A">>, "d1")
             \/ MarkTopicCompleted(u, <<"a">>, <<"a">>)
             \/ \E tid \in 1..MaxTopics : MarkTopicCompletedById(u, tid)
    \/ \E cid \in 1..MaxCourses : AddTopic(cid, <<"A">>, WeekOf(<<"A">>), MaxTopics)

SpecIsolation == Init /\ [][NextIsolation]_vars

\* The sweep next to the calls that mark reminders sent: people register
\* once, at the start, one of them creates reminders, the scheduler sweeps, and reminders are
\* marked sent through mark_reminder_sent.
NextResweep ==
    \/ TickRem
    \/ /\ now = 0
       /\ \E tg \in TelegramIds :
             /\ \A usr \in users : usr.telegram_id # tg
             /\ GetOrCreateUser(tg, <<NoName, NoName, NoName>>)
    \/ \E at \in 0..MaxRemTime : HatirlaticiCommand(2, at)
    \/ \E rid \in 1..MaxReminders : MarkReminderSent(rid)
    \/ CheckReminders
    \/ GetPendingReminders

SpecResweep == Init /\ [][NextResweep]_vars

\* Two people load the courses, learn topics, and ask what is next.
NextLearn ==
    \/ \E tg \in TelegramIds :
          LoadCoursesCommand(tg, <<NoName, NoName, NoName>>)
    \/ \E tg \in TelegramIds, tref \in {<<>>, <<"a">>, <<"c">>},
          answered \in BOOLEAN, sent \in BOOLEAN :
          LearnCommand(tg, <<"a">>, tref, answered, sent)
    \/ \E tg \in TelegramIds : TodayCommand(tg)
    \/ \E tg \in TelegramIds : ContinueCommand(tg)

SpecLearn == InitAI /\ [][NextLearn]_vars

\* The scheduler: people register once, at the start, one of them creates
\* reminders that are due at once, the clock advances, the job fires every
\* interval, and the scheduler is started and stopped again.
NextSched ==
    \/ TickRem
    \/ /\ now = 0
       /\ \E tg \in TelegramIds :
             /\ \A usr \in users : usr.telegram_id # tg
             /\ GetOrCreateUser(tg, <<NoName, NoName, NoName>>)
    \/ HatirlaticiCommand(2, 0)
    \/ Start
    \/ Stop
    \/ JobFires

SpecSched == Init /\ [][NextSched]_vars

\* The clock keeps advancing and the scheduler's thread keeps running.
FairSpecSched == SpecSched /\ WF_vars(TickRem) /\ WF_vars(JobFires)

\* ------------------------------------------------- chat history claims
Ids(rows) == {r.id : r \in rows}

C2_PurgeOldestInserted ==
    [][call'.op = "add_chat_message" /\ nextChatId' # nextChatId =>
          LET u      == call'.user
              before == Ids(UserRows(chat, u)) \cup {nextChatId}
              after  == Ids(UserRows(chat', u))
          IN  \A d \in before \ after, r \in after : d < r]_vars

\* C3: get_chat_history(u, limit) selects the `limit` most recently inserted
\* rows of u and lists them oldest first, so m1..mk appended to an empty
\* history (k <= limit) come back as m1..mk.
C3_MostRecentInOrder ==
    call.op = "get_chat_history" =>
        LET rows == UserRows(chat, call.user)
            w    == call.arg.messages
            sel  == {w[i] : i \in 1..Len(w)}
        IN  /\ Len(w) = Min(call.arg.limit, Cardinality(rows))
            /\ \A i, j \in 1..Len(w) : i < j => w[i].id < w[j].id
            /\ \A q \in rows \ sel, r \in sel : q.id < r.id

\* C4: every entry get_chat_history returns has role "user" or "model";
\* "assistant" and "model" rows come back as "model", "user" rows as
\* "user", rows with any other role are left out, and the entries follow
\* the order of the window.
ValidIdx(w) == {i \in 1..Len(w) : w[i].role \in {"user", "assistant", "model"}}

KthValid(w, k) ==
    CHOOSE i \in ValidIdx(w) : Cardinality({j \in ValidIdx(w) : j <= i}) = k

C4_RolesNormalized ==
    call.op = "get_chat_history" =>
        LET w == call.arg.messages
            r == call.ret
        IN  /\ Len(r) = Cardinality(ValidIdx(w))
            /\ \A k \in 1..Len(r) :
                   /\ r[k].role \in {"user", "model"}
                   /\ r[k].text = w[KthValid(w, k)].message
                   /\ r[k].role = IF w[KthValid(w, k)].role = "user"
                                  THEN "user" ELSE "model"

\* A window holding a row with an unrecognised role before an "assistant"
\* row: the first is dropped, the second comes back as "model".
C4_Witness ==
    /\ call.op = "get_chat_history"
    /\ Len(call.arg.messages) = 2
    /\ call.arg.messages[1].role = "system"
    /\ call.arg.messages[2].role = "assistant"
    /\ Len(call.ret) = 1
    /\ call.ret[1].role = "model"

\* ----------------------------------------------- study progress claims
TopicById(tid) == {t \in topics : t.id = tid}

\* C5: only the first mark_topic_completed of a topic changes it: a
\* completed topic keeps is_completed and completed_at for ever, and a call
\* that resolves to an already completed topic returns True and leaves the
\* topics, the courses and the study_progress rows as they were, also on
\* a later day.
C5_RepeatedCompletionIsNoOp ==
    [][/\ \A t \in topics : t.is_completed => t \in topics'
       /\ (/\ call'.op = "mark_topic_completed"
           /\ \E t \in TopicById(call'.arg) : t.is_completed)
          => /\ call'.ret = TRUE
             /\ UNCHANGED <<topics, courses, progress>>]_vars

\* mark_topic_completed has just returned True for a topic that was
\* completed on an earlier day.
C5_Witness ==
    /\ call.op = "mark_topic_completed"
    /\ call.ret = TRUE
    /\ \E t \in TopicById(call.arg) : t.is_completed /\ t.completed_at < now
    /\ \E p \in progress : p.last_study_date < Today

\* C6: each course's stored completed_topics is the number of its topics
\* with is_completed = true.
C6_CompletedTopicsExact ==
    \A c \in courses :
        c.completed_topics =
            Cardinality({t \in topics : t.course_id = c.id /\ t.is_completed})

\* A completion call has just succeeded and a course counts two completed
\* topics.
C6_Witness ==
    /\ \E c \in courses : c.completed_topics = 2
    /\ call.op \in {"mark_topic_completed", "mark_topic_completed_by_id"}
    /\ call.ret = TRUE

\* The days on which a completion of course cid by user u was processed.
StudyDays(u, cid) ==
    {e.day : e \in {x \in completions : x.user_id = u /\ x.course_id = cid}}

Max(S) == CHOOSE m \in S : \A x \in S : x <= m

\* Length of the run of consecutive days that ends at the last day of D.
TrailingRun(D) ==
    CHOOSE k \in 1..Cardinality(D) :
        /\ \A i \in 0..(k - 1) : Max(D) - i \in D
        /\ Max(D) - k \notin D

C7_WitnessStreakTwo ==
    \E p \in progress :
        /\ StudyDays(p.user_id, p.course_id) = {0, 1}
        /\ p.streak_days = 2

\* ---------------------------------------------------- ownership claims
\* The id of the entity a call targets.
TargetId(c) == IF c.op = "update_task_status" THEN c.arg.id ELSE c.arg

\* The entity an operation targets exists and belongs to the calling user.
Owned(op, id, u) ==
    IF op = "delete_note"
    THEN \E n \in notes : n.id = id /\ n.user_id = u
    ELSE IF op \in {"delete_task", "update_task_status"}
    THEN \E t \in tasks : t.id = id /\ t.user_id = u
    ELSE \E t \in topics, c \in courses :
             t.id = id /\ c.id = t.course_id /\ c.user_id = u

\* C8: delete_note, delete_task, update_task_status and
\* mark_topic_completed_by_id, called for an entity that does not exist or
\* belongs to another user, return False and change no stored row.
C8_ForeignTargetRejected ==
    [][(/\ call'.op \in {"delete_note", "delete_task", "update_task_status",
                         "mark_topic_completed_by_id"}
        /\ ~Owned(call'.op, TargetId(call'), call'.user))
       => /\ call'.ret = FALSE
          /\ UNCHANGED <<notes, tasks, courses, topics, progress, chat>>]_vars

\* mark_topic_completed_by_id has just been refused for an open topic of
\* another user's course, while a note and a task of that other user exist.
C8_Witness ==
    /\ call.op = "mark_topic_completed_by_id"
    /\ call.ret = FALSE
    /\ \E t \in topics, c \in courses :
           /\ t.id = call.arg /\ c.id = t.course_id
           /\ c.user_id # call.user /\ ~t.is_completed
           /\ \E n \in notes : n.user_id = c.user_id
           /\ \E k \in tasks : k.user_id = c.user_id

\* ------------------------------------------------------ reminder claims
\* C9: under fair periodic sweeps, every reminder created through
\* /hatirlatici that is unsent and due is eventually dispatched as a
\* notification and marked is_sent = true.
C9_DueReminderEventuallySent ==
    \A rid \in 1..MaxReminders :
        (\E r \in reminders : r.id = rid /\ ~r.is_sent /\ r.remind_at <= now)
        ~> (/\ \E r \in reminders : r.id = rid /\ r.is_sent
            /\ \E n \in notifications : n.reminder = rid)

\* C10: is_sent is monotonic: a reminder that is marked sent stays in the
\* table and stays marked sent in every later state.
C10_IsSentMonotonic ==
    [][\A r \in reminders :
           r.is_sent => \E q \in reminders' : q.id = r.id /\ q.is_sent]_vars

\* A reminder was marked sent, then add_reminder created another one: the
\* first is still marked sent.
C10_Witness ==
    /\ call.op = "add_reminder"
    /\ \E r \in reminders : r.is_sent /\ r.id # call.ret
    /\ \E r \in reminders : r.id = call.ret /\ ~r.is_sent

\* C11: get_pending_reminders returns exactly the reminders of all users
\* that are unsent and due: nothing sent, nothing with remind_at after the
\* current time, and every unsent due reminder whoever owns it.
C11_PendingExact ==
    call.op = "get_pending_reminders" =>
        /\ \A r \in call.ret :
               r \in reminders /\ ~r.is_sent /\ r.remind_at <= now
        /\ \A r \in reminders :
               (~r.is_sent /\ r.remind_at <= now) => r \in call.ret

\* The sweep query returned due reminders of two users while the table
\* also holds a reminder it left out.
C11_Witness ==
    /\ call.op = "get_pending_reminders"
    /\ \E r, q \in call.ret : r.user_id # q.user_id
    /\ \E r \in reminders : r \notin call.ret

\* -------------------------------------------------------- agenda claims
\* C12: every task has completed_at set exactly when is_completed is true:
\* add_task creates it open without completed_at, completing sets
\* completed_at, reopening clears it.
C12_CompletedAtIffCompleted ==
    \A t \in tasks : (t.completed_at # NoTime) <=> t.is_completed

\* update_task_status(..., False) has just succeeded on a task, which is
\* open without completed_at, while another task is completed with
\* completed_at set.
C12_Witness ==
    /\ call.op = "update_task_status"
    /\ ~call.arg.done
    /\ call.ret = TRUE
    /\ \E t \in tasks : /\ t.id = call.arg.id
                         /\ ~t.is_completed /\ t.completed_at = NoTime
    /\ \E t \in tasks : t.is_completed /\ t.completed_at # NoTime

\* The calendar day an instant falls on.
DayOf(t) == t \div DayLen

\* C16: get_today_tasks(u) returns exactly u's open tasks whose due date
\* falls on the current calendar day: a task due at the last instant of
\* today is listed; one due at the first instant of tomorrow, one without
\* due date, a completed one and another user's task are not.
C16_TodayTasksExact ==
    call.op = "get_today_tasks" =>
        call.ret = {t \in tasks : /\ t.user_id = call.user
                                  /\ ~t.is_completed
                                  /\ t.due_date # NoTime
                                  /\ DayOf(t.due_date) = DayOf(now)}

\* On the first day the list holds the caller's task due at the day's last
\* instant and leaves out the caller's task due at the next day's first
\* instant.
C16_Witness ==
    /\ call.op = "get_today_tasks"
    /\ DayOf(now) = 0
    /\ \E t \in call.ret : t.due_date = DayLen - 1
    /\ \E t \in tasks : /\ t.user_id = call.user /\ ~t.is_completed
                         /\ t.due_date = DayLen /\ t \notin call.ret

\* ---------------------------------------------------------- quiz claims
\* The quizzes get_avg_quiz_score(u, cid) has to average, as
\* (score, total) pairs with their multiplicities.
Counted(u, cid) ==
    {q \in BagToSet(quizzes) :
        /\ q.user_id = u
        /\ q.total_questions > 0
        /\ \E t \in topics : t.id = q.topic_id /\ t.course_id = cid}

RECURSIVE SumOver(_, _)
SumOver(S, f) ==
    IF S = {} THEN 0
    ELSE LET x == CHOOSE y \in S : TRUE IN f[x] + SumOver(S \ {x}, f)

\* C13: get_avg_quiz_score(u, c) returns None when c has no topic or u has
\* no quiz with total > 0 on c's topics, and otherwise the mean of
\* score / total * 100 over exactly those quizzes.
C13_AvgQuizScore ==
    call.op = "get_avg_quiz_score" =>
        LET S   == Counted(call.user, call.arg)
            n   == SumOver(S, [q \in S |-> quizzes[q]])
            num == SumOver(S, [q \in S |->
                       quizzes[q] * ((q.score * 100) \div q.total_questions)])
        IN  IF n = 0 THEN call.ret = None
            ELSE /\ call.ret.n > 0
                 /\ call.ret.sum * n = num * call.ret.n

\* Quizzes (3, 5) and (4, 5) of the caller on the course average to 70
\* while a third quiz is not counted.
C13_Witness ==
    /\ call.op = "get_avg_quiz_score"
    /\ call.ret.n = 2
    /\ call.ret.sum = 70 * call.ret.n
    /\ \E q \in Counted(call.user, call.arg) : q.score = 3
    /\ \E q \in Counted(call.user, call.arg) : q.score = 4
    /\ BagCardinality(quizzes) = 3

\* ------------------------------------------------------ syllabus claims
\* (course, week) of a precedes or equals (course, week) of b.
KeyLeq(a, b) ==
    \/ a.course_id < b.course_id
    \/ a.course_id = b.course_id /\ a.week_number <= b.week_number

\* C14: get_next_topics(u, limit) returns the first `limit` incomplete
\* topics of u's own courses in (course id, week_number) order, without a
\* completed topic and without a topic of another user's course;
\* get_next_topic(u) returns the first of them, or nothing when u has no
\* incomplete topic.
C14_NextTopicsInOrder ==
    call.op \in {"get_next_topics", "get_next_topic"} =>
        LET w    == call.ret
            open == {t \in topics :
                        /\ ~t.is_completed
                        /\ \E c \in courses :
                               c.id = t.course_id /\ c.user_id = call.user}
            got  == {t \in open : \E i \in 1..Len(w) : w[i].topic_id = t.id}
        IN  /\ Len(w) = Min(call.arg, Cardinality(open))
            /\ Cardinality(got) = Len(w)
            /\ \A i \in 1..Len(w) : \E t \in open :
                   /\ t.id = w[i].topic_id
                   /\ t.week_number = w[i].week_number
                   /\ t.course_id = w[i].course_id
            /\ \A i, j \in 1..Len(w) : i < j => KeyLeq(w[i], w[j])
            /\ \A t \in open \ got : \A i \in 1..Len(w) : KeyLeq(w[i], t)

\* Two topics came back with the earlier course first, although its topic
\* was inserted later and has the larger week number.
C14_Witness ==
    /\ call.op = "get_next_topics"
    /\ Len(call.ret) = 2
    /\ call.ret[1].course_id < call.ret[2].course_id
    /\ call.ret[1].topic_id > call.ret[2].topic_id
    /\ call.ret[1].week_number > call.ret[2].week_number

\* C17: add_topic for a (course, title) that already exists returns the
\* existing topic's id and changes neither the topics nor the courses, so
\* no course ever holds two topics with the same title.
C17_RepeatedAddTopicIsNoOp ==
    [][/\ \A t1, t2 \in topics' :
              (t1.course_id = t2.course_id /\ t1.title = t2.title) => t1 = t2
       /\ \A t \in topics :
              (/\ call'.op = "add_topic"
               /\ t.course_id = call'.arg.course_id
               /\ t.title = call'.arg.title)
              => /\ call'.ret = t.id
                 /\ UNCHANGED <<topics, courses, nextTopicId>>]_vars

\* add_topic has just returned the id of a topic that is completed, hence
\* of one that existed before the call.
C17_Witness ==
    /\ call.op = "add_topic"
    /\ \E t \in topics : /\ t.id = call.ret /\ t.is_completed
                          /\ t.title = call.arg.title
                          /\ t.course_id = call.arg.course_id

\* C18: a course's stored total_topics is the number of topics of that
\* course.
C18_TotalTopicsExact ==
    \A c \in courses :
        c.total_topics = Cardinality({t \in topics : t.course_id = c.id})

\* C19: add_course for a name the user already has returns the existing
\* course's id and changes nothing but that course's description, so a
\* user never has two courses of the same name.
C19_RepeatedAddCourseUpdates ==
    [][/\ \A c1, c2 \in courses' :
              (c1.user_id = c2.user_id /\ c1.name = c2.name) => c1 = c2
       /\ \A c \in courses :
              (/\ call'.op = "add_course"
               /\ c.user_id = call'.user
               /\ c.name = call'.arg.name)
              => /\ call'.ret = c.id
                 /\ courses' = (courses \ {c}) \cup
                       {[c EXCEPT !.description = call'.arg.description]}
                 /\ UNCHANGED <<topics, progress, nextCourseId>>]_vars

\* add_course has just returned the id of a course that has a completed
\* topic, hence of one that existed before the call; the course carries
\* the description passed and another user has a course of the same name.
C19_Witness ==
    /\ call.op = "add_course"
    /\ \E c \in courses : /\ c.id = call.ret
                           /\ c.completed_topics = 1
                           /\ c.description = call.arg.description
                           /\ c.description = "d2"
    /\ \E c \in courses : c.user_id # call.user /\ c.name = call.arg.name

\* C15: get_streak(u) is the largest streak_days among u's study_progress
\* rows (one per course), and 0 when u has none.
C15_StreakIsMaximum ==
    call.op = "get_streak" =>
        LET ps == {p \in progress : p.user_id = call.user}
        IN  IF ps = {} THEN call.ret = 0
            ELSE /\ \E p \in ps : p.streak_days = call.ret
                 /\ \A p \in ps : p.streak_days <= call.ret

\* The user studied one course on one day and another course on the next,
\* which gives a streak of 1 on each, and get_streak returned 1.
C15_Witness ==
    /\ call.op = "get_streak"
    /\ call.ret = 1
    /\ \E p, q \in progress :
           /\ p.user_id = call.user /\ q.user_id = call.user
           /\ p.course_id # q.course_id
           /\ p.last_study_date + 1 = q.last_study_date
           /\ p.streak_days = 1 /\ q.streak_days = 1

\* ---------------------------------------------------------- user claims
\* C20: there is one users row per telegram_id seen: the first
\* get_or_create_user creates it; every later call returns the same id and
\* updates that row in place, a name passed as None keeping its stored
\* value; no row is ever removed.
C20_OneUserPerTelegramId ==
    [][/\ \A u1, u2 \in users' : u1.telegram_id = u2.telegram_id => u1 = u2
       /\ \A u \in users : \E v \in users' :
              v.id = u.id /\ v.telegram_id = u.telegram_id
       /\ call'.op = "get_or_create_user" =>
              /\ \E v \in users' :
                     v.id = call'.ret /\ v.telegram_id = call'.user
              /\ \A u \in users : u.telegram_id = call'.user =>
                     /\ call'.ret = u.id
                     /\ Cardinality(users') = Cardinality(users)
                     /\ \E v \in users' :
                            /\ v.id = u.id
                            /\ v.created_at = u.created_at
                            /\ v.username = IF call'.arg[1] = NoName
                                            THEN u.username ELSE call'.arg[1]
                            /\ v.first_name = IF call'.arg[2] = NoName
                                              THEN u.first_name ELSE call'.arg[2]
                            /\ v.last_name = IF call'.arg[3] = NoName
                                             THEN u.last_name ELSE call'.arg[3]
              /\ (\A u \in users : u.telegram_id # call'.user) =>
                     Cardinality(users') = Cardinality(users) + 1]_vars

\* A later call without username has just updated a user created earlier:
\* the stored username is kept, the first name is the one passed, and the
\* other person's row is there as well.
C20_Witness ==
    /\ call.op = "get_or_create_user"
    /\ call.arg[1] = NoName
    /\ \E v \in users : /\ v.id = call.ret
                         /\ v.created_at < v.last_active
                         /\ v.username = "u1"
                         /\ v.first_name = "f2"
    /\ Cardinality(users) = 2

C22_StorageErrorLeavesNoTrace ==
    [][(/\ call' # call
        /\ call'.op \in {"mark_topic_completed", "mark_topic_completed_by_id"}
        /\ call'.arg.error # "none")
       => /\ call'.ret = FALSE
          /\ UNCHANGED <<topics, courses, progress>>]_vars

\* The error of the StudyProgress query was swallowed and the commit went
\* through: the call returned True with the topic completed and counted
\* and no StudyProgress row written.
C22_SwallowedProgressError ==
    /\ call.op \in {"mark_topic_completed", "mark_topic_completed_by_id"}
    /\ call.arg.error = "progress"
    /\ call.ret = TRUE
    /\ \E t \in topics : t.id = call.arg.topic /\ t.is_completed
    /\ progress = {}

\* ---------------------------------------------------------------- C23
\* C23: in every committed state, between the statements of an
\* add_chat_message call and after a call in which a statement failed,
\* no user has more than MAX_CHAT_HISTORY chat rows.
C23_HardCapInEveryCommittedState ==
    \A u \in Users :
        ~ \E S \in SUBSET chat :
              /\ \A r \in S : r.user_id = u
              /\ Cardinality(S) > MAX_CHAT_HISTORY

\* add_chat_message has returned the new row after its purge failed, and
\* the user is left with one row more than the cap.
C23_OverCapAfterReturn ==
    /\ session = Idle
    /\ call.op = "add_chat_message"
    /\ call.arg.error = "cleanup"
    /\ Cardinality(UserRows(chat, call.user)) = MAX_CHAT_HISTORY + 1

\* ---------------------------------------------------------------- C24
\* C24: a chat call in which the request to the model raised returns the
\* apology string and has sent exactly one request; no chat call sends
\* more than one request, and every chat call returns a string.
C24_LlmFailureIsApologyWithoutRetry ==
    [][(call'.op = "chat" /\ <<call, llm, chat>>' # <<call, llm, chat>>)
       => /\ call'.ret \in {"unavailable", "apology", "response"}
          /\ llm'.calls - llm.calls <= 1
          /\ call'.arg = "send_message raised"
                => /\ call'.ret = "apology"
                   /\ llm'.calls = llm.calls + 1]_vars

\* A request to the model raised after an earlier chat was answered: the
\* user's message is stored, the reply is not.
C24_Witness ==
    /\ call.op = "chat"
    /\ call.arg = "send_message raised"
    /\ call.ret = "apology"
    /\ llm.calls = 2
    /\ \E r \in chat : r.user_id = call.user /\ r.role = "user"
                        /\ r.id = nextChatId - 1

\* ---------------------------------------------------------------- C25
\* C25: whenever process_upscale_photo has returned, on any exit path,
\* no temp file it created is left: neither the downloaded input nor the
\* upscaled output of that photo.
C25_NoTempFileLeft ==
    call.op = "process_upscale_photo" =>
        /\ InputPath(call.user, call.arg.photo) \notin tempFiles
        /\ OutputPath(call.user, call.arg.photo) \notin tempFiles

\* Sending the upscaled photo raised: the handler apologised and both
\* files are still in temp_images.
C25_BothFilesLeft ==
    /\ call.op = "process_upscale_photo"
    /\ call.arg.exit = "reply_photo raised"
    /\ {InputPath(call.user, call.arg.photo),
        OutputPath(call.user, call.arg.photo)} \subseteq tempFiles

C26_QuizLogAppendOnly ==
    [][/\ \A q \in BagToSet(quizzes) : CopiesIn(q, quizzes') >= CopiesIn(q, quizzes)
       /\ \A u \in Users : TotalQuizzes(quizzes', u) >= TotalQuizzes(quizzes, u)
       /\ (call'.op = "add_quiz_result" /\ <<call, quizzes>>' # <<call, quizzes>>)
            => LET given == [user_id |-> call'.user,
                             topic_id |-> call'.arg.topic_id,
                             score |-> call'.arg.score,
                             total_questions |-> call'.arg.total]
               IN  /\ BagCardinality(quizzes') = BagCardinality(quizzes) + 1
                   /\ CopiesIn(given, quizzes') = CopiesIn(given, quizzes) + 1
       /\ call'.op = "get_total_quizzes"
            => /\ quizzes' = quizzes
               /\ call'.ret = BagCardinality(
                                  [q \in {x \in BagToSet(quizzes) :
                                             x.user_id = call'.user}
                                      |-> quizzes[q]])]_vars

\* A user has handed in the same 6-out-of-5 quiz twice and one more, and
\* get_total_quizzes has counted three.
C26_Witness ==
    /\ call.op = "get_total_quizzes"
    /\ call.ret = 3
    /\ \E q \in BagToSet(quizzes) :
          /\ q.user_id = call.user /\ q.score > q.total_questions
          /\ CopiesIn(q, quizzes) = 2

\* ---------------------------------------------------------------- C28
\* C28: a streak update for (user, course) on date T creates the row with
\* streak 1 and date T when there is none; leaves the row alone when its
\* date is T; adds 1 to the streak when its date is T - 1; sets the streak
\* to 1 otherwise (date before T - 1 or after T); sets the date to T in
\* every changed case; touches no other row; and there is never more than
\* one row for a (user, course).
C28_StreakUpdateCases ==
    [][(call'.op = "_update_study_progress" /\ <<call, progress>>' # <<call, progress>>)
       => LET u    == call'.user
              cid  == call'.arg.course_id
              T    == call'.arg.today
              old  == {p \in progress : p.user_id = u /\ p.course_id = cid}
              new  == {p \in progress' : p.user_id = u /\ p.course_id = cid}
          IN  /\ progress' \ new = progress \ old
              /\ Cardinality(new) = 1
              /\ \A n \in new :
                    IF old = {}
                    THEN n.streak_days = 1 /\ n.last_study_date = T
                    ELSE \A p \in old :
                           IF p.last_study_date = T THEN n = p
                           ELSE /\ n.last_study_date = T
                                /\ n.streak_days =
                                     IF p.last_study_date = T - 1
                                     THEN p.streak_days + 1
                                     ELSE 1
              /\ \A v \in Users :
                    Cardinality({p \in progress' : p.user_id = v
                                                   /\ p.course_id = cid}) <= 1]_vars

\* The clock was set back: a row dated after T was updated on T and is at
\* streak 1, dated T, next to another user's row with a streak of 2.
C28_Witness ==
    /\ call.op = "_update_study_progress"
    /\ \E d \in call.arg.before : d > call.arg.today
    /\ \E p \in progress :
          /\ p.user_id = call.user /\ p.course_id = call.arg.course_id
          /\ p.streak_days = 1 /\ p.last_study_date = call.arg.today
    /\ \E p \in progress : p.user_id # call.user /\ p.streak_days = 2

C30_ResolvedAmongOwnCourses ==
    [][(call'.op = "mark_topic_completed" /\ <<call, topics>>' # <<call, topics>>)
       => LET u    == call'.user
              cref == call'.ref[1]
              tref == call'.ref[2]
              mine == {c \in courses : c.user_id = u /\ ILike(c.name, cref)}
              hit(c) == {t \in topics : t.course_id = c.id /\ ILike(t.title, tref)}
          IN  /\ call'.ret = TRUE
                   => \E c \in mine : \E t \in hit(c) : t.id = call'.arg
              /\ call'.ret = FALSE
                   => /\ mine = {} \/ \E c \in mine : hit(c) = {}
                      /\ UNCHANGED <<topics, courses, progress>>
              /\ (\A c \in mine : hit(c) = {}) => call'.ret = FALSE
              /\ \A c \in courses : c.user_id # u =>
                    /\ c \in courses'
                    /\ \A t \in topics : t.course_id = c.id => t \in topics'
              /\ \A p \in progress : p.user_id # u => p \in progress']_vars

\* A user named a course and a topic that only the other user has: the
\* call returned False and the other user's topic is still open.
C30_Witness ==
    /\ call.op = "mark_topic_completed"
    /\ call.ret = FALSE
    /\ \E c \in courses, t \in topics :
          /\ c.user_id # call.user
          /\ ILike(c.name, call.ref[1])
          /\ t.course_id = c.id /\ ILike(t.title, call.ref[2])
          /\ ~t.is_completed
    /\ \E c \in courses : c.user_id = call.user
    /\ \E t \in topics : t.is_completed

C31_WitnessFailure ==
    /\ call.op = "chat" /\ call.arg = "send_message raised"
    /\ \E r \in chat : r.id = call.message /\ r.role = "user"
    /\ \A q \in chat : q.role # "model"

\* ---------------------------------------------------------------- C32
\* C32: the history a chat call hands to the model never holds the
\* message the call is about to send.
C32_HistoryHoldsPriorTurnsOnly ==
    (call.op = "chat" /\ call.arg \in {"send_message raised",
                                        "reply not stored", "answered"})
        => \A i \in 1..Len(call.history) : call.history[i].text # call.message

\* The model was asked with a history whose last entry is the message
\* itself.
C32_MessageSentTwice ==
    /\ call.op = "chat" /\ call.arg = "answered"
    /\ Len(call.history) > 0
    /\ call.history[Len(call.history)].text = call.message

\* ---------------------------------------------------------------- C33
\* C33: when the lower-cased text of a message contains one of the
\* keyword phrases, handle_message replies with the suggestion of the
\* command of a phrase the text contains, the model is not called and no
\* stored entity changes.
C33_KeywordSuggestsCommand ==
    [][(/\ call'.op = "handle_message"
        /\ \E i \in 1..Len(CommandHints) :
              \E k \in 1..Len(call'.arg) :
                 \E n \in 1..(Len(call'.arg) - k + 1) :
                    CommandHints[i].hint =
                        [j \in 1..n |-> LowerWord(call'.arg[k + j - 1])])
       => /\ call'.ret.reply = "suggestion"
          /\ \E i \in 1..Len(CommandHints) :
                /\ call'.ret.command = CommandHints[i].command
                /\ \E k \in 1..Len(call'.arg) :
                      \E n \in 1..(Len(call'.arg) - k + 1) :
                         CommandHints[i].hint =
                             [j \in 1..n |-> LowerWord(call'.arg[k + j - 1])]
          /\ UNCHANGED <<llm, chat, nextChatId, notes, tasks, reminders, users,
                         courses, topics, progress, quizzes, notifications>>]_vars

\* "Not ekle": the phrase is capitalised in the message, and /not_ekle
\* was suggested without a call of the model or a stored row.
C33_Witness ==
    /\ call.op = "handle_message"
    /\ call.arg = <<"Not", "ekle">>
    /\ call.ret = [reply |-> "suggestion", command |-> "/not_ekle"]
    /\ llm.calls = 0 /\ chat = {}

\* ---------------------------------------------------------------- C34
\* C34: an active quiz session always has 0 <= score <= current_index <=
\* len(questions); the session is removed when current_index reaches
\* len(questions), with one quizzes row (score, len(questions)) recorded,
\* so that every recorded pair has score <= total; and a click of one user
\* leaves the session of every other user as it was.
C34_ScoreWithinIndex ==
    /\ \A tg \in TelegramIds :
          activeQuiz[tg] # NoQuiz =>
             /\ 0 <= activeQuiz[tg].score
             /\ activeQuiz[tg].score <= activeQuiz[tg].current_index
             /\ activeQuiz[tg].current_index < Len(activeQuiz[tg].questions)
    /\ \A q \in BagToSet(quizzes) : q.score <= q.total_questions

\* A finished quiz recorded more correct answers than it had questions.
C34_ScoreAboveTotal ==
    /\ call.op = "_handle_quiz_answer"
    /\ call.ret = "finished"
    /\ \E q \in BagToSet(quizzes) :
          /\ q.user_id = call.arg.before.user_db_id
          /\ q.total_questions = Len(call.arg.before.questions)
          /\ q.score > q.total_questions

\* ---------------------------------------------------------------- C38
\* C38: a click on the buttons of a message that does not show the current
\* question of the active quiz (an answered question, or a question of an
\* earlier quiz) changes neither current_index nor score, and records
\* nothing.
C38_StaleClickIgnored ==
    [][(/\ call'.op = "_handle_quiz_answer"
        /\ <<call, activeQuiz>>' # <<call, activeQuiz>>
        /\ call'.arg.before # NoQuiz
        /\ \/ call'.arg.keyboard.run # call'.arg.before.run
           \/ call'.arg.keyboard.question # call'.arg.before.current_index)
       => /\ activeQuiz' = activeQuiz
          /\ quizzes' = quizzes]_vars

\* A click on the first question of an earlier quiz was counted as a
\* correct answer to the current question of the quiz started after it.
C38_StaleClickScored ==
    /\ call.op = "_handle_quiz_answer"
    /\ call.arg.before # NoQuiz
    /\ call.arg.keyboard.run < call.arg.before.run
    /\ call.ret = "next question"
    /\ activeQuiz[call.user].score = call.arg.before.score + 1
    /\ activeQuiz[call.user].current_index = call.arg.before.current_index + 1

\* ---------------------------------------------------------------- C35
\* What the queries of user u return: get_notes, get_tasks with and
\* without the completed ones, every list get_chat_history may build with
\* the limit AIAssistant.chat passes, get_user_courses with its two
\* counts, get_streak.
QueryResults(u) ==
    [get_notes |-> {n \in notes : n.user_id = u},
     get_tasks |-> [all \in BOOLEAN |->
                      {t \in tasks : t.user_id = u /\ (all \/ ~t.is_completed)}],
     get_chat_history |->
         {BuildResult(w) : w \in RecentWindows(UserRows(chat, u), CONTEXT_WINDOW)},
     get_user_courses |->
         {[id |-> c.id, name |-> c.name, description |-> c.description,
           total_topics |-> Cardinality(CourseTopics(topics, c.id)),
           completed_topics |-> CompletedCount(topics, c.id)] :
              c \in {x \in courses : x.user_id = u}},
     get_streak |-> LET progresses == {p \in progress : p.user_id = u}
                    IN  IF progresses = {} THEN 0 ELSE StreakMax(progresses)]

\* The calls that take the caller's user id.
OwnerOps ==
    {"add_note", "delete_note", "add_task", "update_task_status",
     "delete_task", "add_chat_message", "add_course", "mark_topic_completed",
     "mark_topic_completed_by_id"}

RowOf(tg) == {usr \in users : usr.telegram_id = tg}

\* C37: every topic /bugun lists under the next topics is an incomplete
\* topic of a course of the person who asked, that is, of a course stored
\* under the primary key of that person's users row, where /dersler_yukle
\* put it and /devam looks for it.
C37_TodayShowsOwnTopics ==
    call.op = "today_command" =>
        \A i \in 1..Len(call.ret.next_topics) :
            \E c \in courses, usr \in RowOf(call.user) :
                /\ c.id = call.ret.next_topics[i].course_id
                /\ c.user_id = usr.id

\* /bugun of Telegram user 2 lists a topic of a course that belongs to
\* the users row of Telegram user 7.
C37_TodayShowsForeignTopics ==
    /\ call.op = "today_command"
    /\ call.user = 2
    /\ \E i \in 1..Len(call.ret.next_topics) :
          \E c \in courses, usr \in RowOf(7) :
              /\ c.id = call.ret.next_topics[i].course_id
              /\ c.user_id = usr.id

\* ---------------------------------------------------------------- C39
\* C39: a /ogren whose LLM call failed marks no topic completed and
\* changes no course counter and no StudyProgress row.
C39_NoMarkWithoutExplanation ==
    [][(/\ call'.op = "learn_command"
        /\ call'.arg.llm = "raised"
        /\ <<call, topics, progress>>' # <<call, topics, progress>>)
       => UNCHANGED <<topics, courses, progress>>]_vars

\* The LLM call of a /ogren failed, and the topic it named is completed
\* and has a StudyProgress row with a streak of 1.
C39_MarkedAfterFailedExplanation ==
    /\ call.op = "learn_command"
    /\ call.arg.llm = "raised"
    /\ \E t \in topics : t.id = call.arg.topic /\ t.is_completed
    /\ \E p \in progress, usr \in RowOf(call.user) :
          p.user_id = usr.id /\ p.streak_days = 1

\* ---------------------------------------------------------------- C40
\* C40: the job store never holds more than one 'reminder_checker' job,
\* however often the scheduler is started; a run of the job, failing or
\* not, leaves the scheduler running with its job in the store; and after
\* a sweep that failed at instant t the job runs again after t, unless
\* the scheduler is stopped.
C40_SweepFailureKeepsTimer ==
    /\ [](Cardinality(JobsWithId(scheduler, "reminder_checker")) <= 1)
    /\ [][call'.op = "check_reminders" =>
             /\ scheduler'.is_running = scheduler.is_running
             /\ scheduler'.jobs = scheduler.jobs]_vars
    /\ \A t \in 0..(MaxRemTime - 1) :
          (call.op = "check_reminders" /\ call.ret = "error"
              /\ scheduler.last_run = t)
          ~> (scheduler.last_run > t \/ ~scheduler.is_running)

\* Two sweeps have failed and were logged, the later one in the current
\* interval, and the store of the running scheduler holds the job once.
C40_Witness ==
    /\ call.op = "check_reminders"
    /\ call.ret = "error"
    /\ scheduler.logged >= 2
    /\ scheduler.last_run = now
    /\ scheduler.is_running
    /\ scheduler.jobs = <<"reminder_checker">>
====
